---- MODULE Spec2Model ----
(***************************************************************************)
(* Verification model of the HFT ticker analysis pipeline:                 *)
(*   - LockFreeRingBuffer<T,Size>   (include/LockFreeRingBuffer.h)          *)
(*   - EMACalculator                (src/EMACalculator.cpp)                 *)
(*   - CoinbaseTickerAnalyzer       (src/EMACalculator.cpp, second half)    *)
(*   - CSVLogger / AsyncCSVLogger   (src/CSVLogger.cpp, AsyncCSVLogger.cpp) *)
(* Each component has its own specification over the shared variable list; *)
(* the variables of the other components stay at their idle values.        *)
(***************************************************************************)
EXTENDS Integers, Sequences, FiniteSets, TLC

(***************************************************************************)
(* Bounds of the model.                                                    *)
(***************************************************************************)
MaxLogSize == 2          \* ring sizes 2^1 .. 2^MaxLogSize
MaxVal     == 2          \* item values 1..MaxVal
MaxPush    == 5          \* accepted pushes per run (enough to wrap Size = 4)
MaxTime    == 6          \* event times 0..MaxTime seconds
MaxFrames  == 3          \* frames delivered by the transport per run
MaxCalls   == 4          \* start() / stop() calls made by the calling thread
MaxClockSteps == 6       \* steps the clock makes per run
MaxFlushRows == 2        \* records passed to the logger per run
MaxLogCalls == 3         \* logTickerData calls made by the threads together
MaxThreadCalls == 3      \* EMACalculator calls made by the threads together
MaxObsPush == 3          \* pushes made while observers are called
MaxStrLen == 2           \* characters in a transport field
MaxSessions == 2         \* loggers opened on the same file, one after the other

VARIABLES
    \* ---- LockFreeRingBuffer<T,Size> ----
    Size,        \* template parameter Size (a power of two)
    m_buffer,    \* std::array<T,Size>
    m_head,      \* consumer index
    m_tail,      \* producer index
    pushed,      \* history: items accepted by successful pushes
    popped,      \* history: items returned by successful pops
    call,        \* the last completed call: operation, argument, result
    popItem,     \* the caller's variable passed to pop(T&)
    \* ---- one producer and one consumer, step by step ----
    ppc, p_tail, p_next, p_item,
    cpc, c_head,
    wr, rd,      \* slot being written / being read (-1: none)
    \* ---- EMACalculator ----
    m_interval,              \* std::chrono::seconds m_interval
    m_alpha,                 \* smoothing factor, a rational <<num, den>>
    m_priceEMA,              \* rational <<num, den>>
    m_midPriceEMA,
    m_priceInitialized,
    m_midPriceInitialized,
    m_priceLastUpdate,       \* time points are whole seconds
    m_midPriceLastUpdate,
    emaCall,     \* the last completed EMACalculator call, with what it saw
    upd,         \* the EMACalculator call in progress, statement by statement
    \* ---- CoinbaseTickerAnalyzer ----
    mainPc,                  \* position of the thread calling start() / stop()
    m_running,               \* std::atomic<bool> m_running
    m_processingEnabled,     \* std::atomic<bool> m_processingEnabled
    m_dataQueue,             \* std::queue<TickerData>, guarded by m_queueMutex
    procPc,                  \* position of processDataThread
    procData,                \* processDataThread's local TickerData
    wsConnected,             \* the WebSocket I/O thread delivers frames
    framesIn,                \* frames delivered to handleWebSocketMessage
    enqueued,                \* history: ids of the records ingress enqueued
    fed,                     \* history: the records ingress enqueued, as parsed
    shut,                    \* history: what was pending when stop() / close() began
    \* ---- CSVLogger / AsyncCSVLogger ----
    loggerKind,              \* "sync": CSVLogger, "async": AsyncCSVLogger
    fileOpen,                \* m_file is open
    m_headersWritten,
    file,                    \* rows of the output file, in writing order
    log_running,             \* AsyncCSVLogger::m_running
    log_ready,               \* AsyncCSVLogger::m_ready
    logPc,                   \* position of logThreadFunction
    rowOf,       \* the TickerData copy held by m_logQueue, by record id
    \* ---- callers of start() / stop() ----
    lifeCall,    \* the last start() / stop() call made between two runs
    \* ---- callers of a logger that stands alone ----
    lg,          \* the logger object and the threads calling logTickerData
    \* ---- TickerData::toCSV / AsyncCSVLogger::formatToCSV ----
    csv,         \* the record being formatted, its cells and the row text
    \* ---- LockFreeRingBuffer::empty / full / size called by a thread ----
    obs,         \* the observer call of the producer or the consumer
    \* ---- threads calling one EMACalculator ----
    th,          \* the mutex holder and each thread's call in progress
    \* ---- threads calling AsyncCSVLogger::logTickerData on one logger ----
    mp,          \* each calling thread's position in push()
    \* ---- AsyncCSVLogger::logThreadFunction against the clock ----
    fl,          \* the clock, the rows written to the stream and those flushed
    \* ---- JSONParser::parseTimestamp against the wall clock ----
    wc,          \* the wall clock and the timestamps decoded so far
    \* ---- the WebSocketClient objects of one analyzer ----
    ws           \* g_instance, m_websocketClient and the connection's events

ringVars == <<Size, m_buffer, m_head, m_tail, pushed, popped, call, popItem>>
spscVars == <<ppc, p_tail, p_next, p_item, cpc, c_head, wr, rd>>
emaVars  == <<m_interval, m_alpha, m_priceEMA, m_midPriceEMA,
              m_priceInitialized, m_midPriceInitialized,
              m_priceLastUpdate, m_midPriceLastUpdate, emaCall>>
pipeVars == <<mainPc, m_running, m_processingEnabled, m_dataQueue, procPc,
              procData, wsConnected, framesIn, enqueued, fed, shut>>
logVars  == <<loggerKind, fileOpen, m_headersWritten, file, log_running,
              log_ready, logPc, rowOf>>
moreVars == <<th, mp, fl, wc, ws>>
extVars  == <<lifeCall, lg, csv, obs, moreVars>>
nonRingVars == <<emaVars, pipeVars, logVars, upd, extVars>>
idleVars == <<spscVars, upd, extVars>>  \* what the analyzer and its loggers never touch
vars == <<ringVars, spscVars, emaVars, pipeVars, logVars, upd, extVars>>

(***************************************************************************)
(* Values                                                                  *)
(***************************************************************************)
Blank == 0               \* a default-constructed or moved-from T
Vals  == 1..MaxVal

RECURSIVE Pow2(_)
Pow2(k) == IF k = 0 THEN 1 ELSE 2 * Pow2(k - 1)

Sizes == { Pow2(k) : k \in 0..MaxLogSize }

\* bitwise AND on naturals, as `x & (Size - 1)` computes it
RECURSIVE BitAnd(_, _)
BitAnd(a, b) ==
    IF a = 0 \/ b = 0 THEN 0
    ELSE (a % 2) * (b % 2) + 2 * BitAnd(a \div 2, b \div 2)

\* size_t arithmetic is modulo a power of two that Size divides
SizeT(x) == x % Pow2(16)

IsPrefix(s, t) == Len(s) <= Len(t) /\ SubSeq(t, 1, Len(s)) = s

(***************************************************************************)
(* Real numbers (double) are modelled as exact rationals <<num, den>>,     *)
(* den > 0, in lowest terms.                                               *)
(***************************************************************************)
RECURSIVE Gcd(_, _)
Gcd(a, b) == IF b = 0 THEN a ELSE Gcd(b, a % b)

Abs(x) == IF x < 0 THEN -x ELSE x

RNorm(r) ==
    LET g == Gcd(Abs(r[1]), r[2])
    IN  IF r[1] = 0 THEN <<0, 1>> ELSE <<r[1] \div g, r[2] \div g>>

R(i) == <<i, 1>>
RAdd(x, y) == RNorm(<<x[1] * y[2] + y[1] * x[2], x[2] * y[2]>>)
RSub(x, y) == RNorm(<<x[1] * y[2] - y[1] * x[2], x[2] * y[2]>>)
RMul(x, y) == RNorm(<<x[1] * y[1], x[2] * y[2]>>)
RDiv(x, y) == RNorm(<<x[1] * y[2], x[2] * y[1]>>)

(***************************************************************************)
(* EMACalculator: parameters and time gate                                 *)
(***************************************************************************)
DefaultInterval == 5
Intervals == {2, DefaultInterval}
Samples   == {100, 200}
Times     == 0..MaxTime

\* double calculateAlpha(int intervalSeconds) const
calculateAlpha_period(intervalSeconds) == RDiv(R(2), R(intervalSeconds))
calculateAlpha(intervalSeconds) == RDiv(R(2), RAdd(R(intervalSeconds), R(1)))

\* bool shouldUpdatePrice(currentTime) const
shouldUpdatePrice_ungated(currentTime) == TRUE
shouldUpdatePrice(currentTime) ==
    IF ~m_priceInitialized THEN TRUE
    ELSE LET timeDiff == currentTime - m_priceLastUpdate
         IN  timeDiff >= m_interval

\* bool shouldUpdateMidPrice(currentTime) const
shouldUpdateMidPrice(currentTime) ==
    IF ~m_midPriceInitialized THEN TRUE
    ELSE LET timeDiff == currentTime - m_midPriceLastUpdate
         IN  timeDiff >= m_interval

\* newEMA = m_alpha * price + (1.0 - m_alpha) * currentEMA
Smooth(sample, currentEMA) ==
    RAdd(RMul(m_alpha, sample), RMul(RSub(R(1), m_alpha), currentEMA))

\* the value stored by an update that passed shouldUpdate*()
StoredEMA_smoothed(initialized, sample, currentEMA) == Smooth(sample, currentEMA)
StoredEMA(initialized, sample, currentEMA) ==
    IF ~initialized THEN sample ELSE Smooth(sample, currentEMA)

(***************************************************************************)
(* Construction                                                            *)
(***************************************************************************)
NoCall == [op |-> "none", arg |-> Blank, argAfter |-> Blank, ret |-> FALSE]

RingIdle ==
    /\ m_head = 0
    /\ m_tail = 0
    /\ pushed = <<>>
    /\ popped = <<>>
    /\ call = NoCall
    /\ popItem = Blank

SpscIdle ==
    /\ ppc = "idle" /\ p_tail = 0 /\ p_next = 0 /\ p_item = Blank
    /\ cpc = "idle" /\ c_head = 0
    /\ wr = -1 /\ rd = -1

NoEmaCall == [op |-> "none", sample |-> R(0), time |-> 0, ret |-> R(0),
              wasInit |-> FALSE, prior |-> R(0), priorLast |-> 0]

\* EMACalculator::EMACalculator(int intervalSeconds)
EMACalculator(intervalSeconds) ==
    /\ m_interval = intervalSeconds
    /\ m_priceEMA = R(0)
    /\ m_midPriceEMA = R(0)
    /\ m_alpha = calculateAlpha(intervalSeconds)
    /\ m_priceInitialized = FALSE
    /\ m_midPriceInitialized = FALSE
    /\ m_priceLastUpdate = 0        \* default time_point: the clock's epoch
    /\ m_midPriceLastUpdate = 0
    /\ emaCall = NoEmaCall

EmaIdle == EMACalculator(DefaultInterval)

\* no EMACalculator call is in progress
NoUpd == [pc |-> "idle", op |-> "none", sample |-> R(0), time |-> 0,
          pre |-> <<FALSE, R(0)>>, post |-> <<FALSE, R(0)>>]

\* no start() or stop() call has been made yet
NoLifeCall == [op |-> "none", n |-> 0, ret |-> "none"]

\* the threads that call CSVLogger::logTickerData
LogCallers == {1, 2}

\* no logger has been constructed and no logTickerData call has been made
NoLg == [state |-> "none", sessions |-> 0, calls |-> 0, done |-> 0,
         pc |-> [t \in LogCallers |-> "idle"],
         data |-> [t \in LogCallers |-> 0]]

\* no row has been formatted
NoCsv == [pc |-> "none", by |-> "none", data |-> <<>>, cells |-> <<>>, row |-> <<>>]

\* no observer has been called
NoObs == [who |-> "none", fn |-> "none", pc |-> "idle", loaded |-> "none",
          x |-> 0, ret |-> 0, at |-> 0]

\* the threads that call updatePriceEMA, updateMidPriceEMA and reset
Threads == {1, 2}

\* no thread has called the EMACalculator: m_mutex is free (holder 0)
NoTh == [holder |-> 0, calls |-> 0,
         pc |-> [t \in Threads |-> "idle"],
         op |-> [t \in Threads |-> "none"],
         sample |-> [t \in Threads |-> R(0)],
         time |-> [t \in Threads |-> 0],
         cur |-> [t \in Threads |-> R(0)],
         ret |-> [t \in Threads |-> R(0)],
         seq |-> [t \in Threads |-> <<>>]]

\* no thread has called logTickerData
NoMp == [calls |-> 0,
         pc   |-> [t \in Threads |-> "idle"],
         tail |-> [t \in Threads |-> 0],
         item |-> [t \in Threads |-> 0]]

\* the logging thread has just read lastFlushTime from the clock, at time 0
NoFl == [now |-> 0, lastFlushTime |-> 0, pending |-> 0, passed |-> 0,
         written |-> 0, flushed |-> 0, oldest |-> 0]

NoWc == [now |-> 1, decoded |-> <<>>, aborted |-> FALSE]

\* static WebSocketClient* g_instance = nullptr; no client made: clients are
\* numbered from 1 in the order of their construction, 0 is nullptr
nullptr == 0
NoWs == [pc |-> "constructed", calls |-> 0, made |-> 0, g_instance |-> nullptr,
         m_websocketClient |-> nullptr, m_connected |-> {}, event |-> "none",
         delivered |-> 0, refused |-> 0]

MoreIdle == th = NoTh /\ mp = NoMp /\ fl = NoFl /\ wc = NoWc /\ ws = NoWs

ExtIdle == lifeCall = NoLifeCall /\ lg = NoLg /\ csv = NoCsv /\ obs = NoObs /\ MoreIdle

StepIdle == upd = NoUpd /\ ExtIdle

\* a default-constructed TickerData (id 0: no record)
NoData == [id |-> 0, price |-> 0, mid_price |-> 0, time |-> 0,
           price_ema |-> R(0), mid_price_ema |-> R(0)]

RecordIds == 1..MaxFrames

\* nothing has been asked to stop or to close yet
NoShut == [enq |-> -1, pend |-> -1]

\* CoinbaseTickerAnalyzer::CoinbaseTickerAnalyzer
PipeIdle ==
    /\ mainPc = "constructed"
    /\ m_running = FALSE
    /\ m_processingEnabled = FALSE
    /\ m_dataQueue = <<>>
    /\ procPc = "none"
    /\ procData = NoData
    /\ wsConnected = FALSE
    /\ framesIn = 0
    /\ enqueued = <<>>
    /\ fed = <<>>
    /\ shut = NoShut

\* no logger has been created yet; the output file is empty
LogIdle ==
    /\ fileOpen = FALSE
    /\ m_headersWritten = FALSE
    /\ file = <<>>
    /\ log_running = FALSE
    /\ log_ready = FALSE
    /\ logPc = "none"
    /\ rowOf = [i \in RecordIds |-> NoData]

(***************************************************************************)
(* LockFreeRingBuffer: index arithmetic and observers                      *)
(***************************************************************************)
NextIndex_wrapless(i) == i + 1
NextIndex(i) == BitAnd(SizeT(i + 1), Size - 1)

PushFull_never(tail, head) == FALSE
PushFull(tail, head) == NextIndex(tail) = head

PopEmpty_never(head, tail) == FALSE
PopEmpty(head, tail) == head = tail

PopSlot_newest(head, tail) == BitAnd(SizeT(tail - 1), Size - 1)
PopSlot(head, tail) == head

empty == m_head = m_tail

full == NextIndex(m_tail) = m_head

size_unmasked == SizeT(m_tail - m_head)
size == BitAnd(SizeT(m_tail - m_head), Size - 1)

capacity == Size - 1

\* the source of a move-assignment is left valid but unspecified
MovedFrom(v) == {v, Blank}

(***************************************************************************)
(* LockFreeRingBuffer: push and pop as whole calls                         *)
(***************************************************************************)

\* bool push(const T& item): what it does to the ring
pushStores(v) ==
    /\ Len(pushed) < MaxPush
    /\ IF PushFull(m_tail, m_head)
       THEN UNCHANGED <<m_buffer, m_tail, pushed>>
       ELSE /\ m_buffer' = [m_buffer EXCEPT ![m_tail] = v]
            /\ m_tail' = NextIndex(m_tail)
            /\ pushed' = Append(pushed, v)
    /\ UNCHANGED <<Size, m_head, popped, popItem>>

\* bool push(const T& item): the value it returns
pushReturn == ~PushFull(m_tail, m_head)

\* bool push(const T& item), with the completed call on record
push(v) ==
    /\ pushStores(v)
    /\ call' = [op |-> "push", arg |-> v, argAfter |-> v, ret |-> pushReturn]

\* bool push(T&& item)
pushMove(v) ==
    /\ Len(pushed) < MaxPush
    /\ IF PushFull(m_tail, m_head)
       THEN /\ call' = [op |-> "push", arg |-> v, argAfter |-> v, ret |-> FALSE]
            /\ UNCHANGED <<m_buffer, m_tail, pushed>>
       ELSE /\ m_buffer' = [m_buffer EXCEPT ![m_tail] = v]
            /\ m_tail' = NextIndex(m_tail)
            /\ pushed' = Append(pushed, v)
            /\ \E a \in MovedFrom(v) :
                 call' = [op |-> "push", arg |-> v, argAfter |-> a, ret |-> TRUE]
    /\ UNCHANGED <<Size, m_head, popped, popItem>>

\* bool pop(T& item): what it does to the ring and to item
popStores ==
    /\ IF PopEmpty(m_head, m_tail)
       THEN UNCHANGED <<m_buffer, m_head, popped, popItem>>
       ELSE LET slot == PopSlot(m_head, m_tail) IN
            /\ popItem' = m_buffer[slot]
            /\ \E left \in MovedFrom(m_buffer[slot]) :
                 m_buffer' = [m_buffer EXCEPT ![slot] = left]
            /\ m_head' = NextIndex(m_head)
            /\ popped' = Append(popped, m_buffer[slot])
    /\ UNCHANGED <<Size, m_tail, pushed>>

\* bool pop(T& item): the value it returns
popReturn == ~PopEmpty(m_head, m_tail)

\* bool pop(T& item), with the completed call on record
pop ==
    /\ popStores
    /\ call' = [op |-> "pop", arg |-> popItem, argAfter |-> popItem', ret |-> popReturn]

\* the calls made on a ring buffer that stands alone
Push(v)        == push(v) /\ UNCHANGED <<spscVars, nonRingVars>>
PushByMove(v)  == pushMove(v) /\ UNCHANGED <<spscVars, nonRingVars>>
Pop            == pop /\ UNCHANGED <<spscVars, nonRingVars>>

InitRing ==
    /\ Size \in Sizes
    /\ m_buffer = [i \in 0..(Size - 1) |-> Blank]
    /\ RingIdle
    /\ SpscIdle
    /\ EmaIdle
    /\ PipeIdle
    /\ loggerKind = "sync"
    /\ LogIdle
    /\ StepIdle

NextRing ==
    \/ \E v \in Vals : Push(v)
    \/ \E v \in Vals : PushByMove(v)
    \/ Pop

SpecRing == InitRing /\ [][NextRing]_vars

(***************************************************************************)
(* One producer thread in push() and one consumer thread in pop(),         *)
(* interleaved at every index load, slot access and index store.  Copying  *)
(* or moving a T is not atomic: it has a begin and an end.                 *)
(***************************************************************************)
Torn == -1               \* a slot whose assignment is in progress

\* const size_t current_tail = m_tail.load(relaxed); next_tail = ...
P_LoadTail(v) ==
    /\ ppc = "idle"
    /\ Len(pushed) < MaxPush
    /\ p_item' = v
    /\ p_tail' = m_tail
    /\ p_next' = NextIndex(m_tail)
    /\ ppc' = "check"
    /\ UNCHANGED <<nonRingVars, ringVars, cpc, c_head, wr, rd>>

\* if (next_tail == m_head.load(acquire)) return false;
P_LoadHead ==
    /\ ppc = "check"
    /\ ppc' = IF PushFull(p_tail, m_head) THEN "idle" ELSE "write"
    /\ UNCHANGED <<nonRingVars, ringVars, p_tail, p_next, p_item, cpc, c_head, wr, rd>>

\* m_buffer[current_tail] = item;   (the assignment starts)
P_AssignBegin_published ==
    /\ ppc = "write"
    /\ wr' = p_tail
    /\ m_buffer' = [m_buffer EXCEPT ![p_tail] = Torn]
    /\ m_tail' = p_next
    /\ ppc' = "writing"
    /\ UNCHANGED nonRingVars
    /\ UNCHANGED <<Size, m_head, pushed, popped, call, popItem,
                   p_tail, p_next, p_item, cpc, c_head, rd>>

P_AssignBegin ==
    /\ ppc = "write"
    /\ wr' = p_tail
    /\ m_buffer' = [m_buffer EXCEPT ![p_tail] = Torn]
    /\ ppc' = "writing"
    /\ UNCHANGED nonRingVars
    /\ UNCHANGED <<Size, m_head, m_tail, pushed, popped, call, popItem,
                   p_tail, p_next, p_item, cpc, c_head, rd>>

\* m_buffer[current_tail] = item;   (the assignment is complete)
P_AssignEnd ==
    /\ ppc = "writing"
    /\ wr' = -1
    /\ m_buffer' = [m_buffer EXCEPT ![p_tail] = p_item]
    /\ ppc' = "publish"
    /\ UNCHANGED nonRingVars
    /\ UNCHANGED <<Size, m_head, m_tail, pushed, popped, call, popItem,
                   p_tail, p_next, p_item, cpc, c_head, rd>>

\* m_tail.store(next_tail, release); return true;
P_StoreTail ==
    /\ ppc = "publish"
    /\ m_tail' = p_next
    /\ pushed' = Append(pushed, p_item)
    /\ ppc' = "idle"
    /\ UNCHANGED nonRingVars
    /\ UNCHANGED <<Size, m_buffer, m_head, popped, call, popItem,
                   p_tail, p_next, p_item, cpc, c_head, wr, rd>>

\* const size_t current_head = m_head.load(relaxed);
C_LoadHead ==
    /\ cpc = "idle"
    /\ c_head' = m_head
    /\ cpc' = "check"
    /\ UNCHANGED <<nonRingVars, ringVars, ppc, p_tail, p_next, p_item, wr, rd>>

\* if (current_head == m_tail.load(acquire)) return false;
C_LoadTail ==
    /\ cpc = "check"
    /\ cpc' = IF PopEmpty(c_head, m_tail) THEN "idle" ELSE "read"
    /\ UNCHANGED <<nonRingVars, ringVars, ppc, p_tail, p_next, p_item, c_head, wr, rd>>

\* item = std::move(m_buffer[current_head]);   (the move starts)
C_MoveBegin ==
    /\ cpc = "read"
    /\ rd' = c_head
    /\ cpc' = "reading"
    /\ UNCHANGED <<nonRingVars, ringVars, ppc, p_tail, p_next, p_item, c_head, wr>>

\* item = std::move(m_buffer[current_head]);   (the move is complete)
\* a move that overlaps an assignment to the same slot is a data race:
\* the value obtained is then arbitrary
C_MoveEnd ==
    /\ cpc = "reading"
    /\ rd' = -1
    /\ IF m_buffer[c_head] = Torn
       THEN /\ popItem' \in Vals \cup {Blank}
            /\ UNCHANGED m_buffer
       ELSE /\ popItem' = m_buffer[c_head]
            /\ \E left \in MovedFrom(m_buffer[c_head]) :
                 m_buffer' = [m_buffer EXCEPT ![c_head] = left]
    /\ cpc' = "publish"
    /\ UNCHANGED nonRingVars
    /\ UNCHANGED <<Size, m_head, m_tail, pushed, popped, call,
                   ppc, p_tail, p_next, p_item, c_head, wr>>

\* m_head.store((current_head + 1) & (Size - 1), release); return true;
C_StoreHead_skipOne ==
    /\ cpc = "publish"
    /\ m_head' = NextIndex(NextIndex(c_head))
    /\ popped' = Append(popped, popItem)
    /\ cpc' = "idle"
    /\ UNCHANGED nonRingVars
    /\ UNCHANGED <<Size, m_buffer, m_tail, pushed, call, popItem,
                   ppc, p_tail, p_next, p_item, c_head, wr, rd>>

C_StoreHead ==
    /\ cpc = "publish"
    /\ m_head' = NextIndex(c_head)
    /\ popped' = Append(popped, popItem)
    /\ cpc' = "idle"
    /\ UNCHANGED nonRingVars
    /\ UNCHANGED <<Size, m_buffer, m_tail, pushed, call, popItem,
                   ppc, p_tail, p_next, p_item, c_head, wr, rd>>

NextSpsc ==
    \/ \E v \in Vals : P_LoadTail(v)
    \/ P_LoadHead
    \/ P_AssignBegin
    \/ P_AssignEnd
    \/ P_StoreTail
    \/ C_LoadHead
    \/ C_LoadTail
    \/ C_MoveBegin
    \/ C_MoveEnd
    \/ C_StoreHead

SpecSpsc == InitRing /\ [][NextSpsc]_vars

(***************************************************************************)
(* empty(), full() and size() called by the producer or by the consumer    *)
(* between two of its own operations, while the other thread runs: each    *)
(* observer makes two acquire loads, and the other thread can take steps   *)
(* between them.                                                           *)
(***************************************************************************)
Owners == {"producer", "consumer"}

\* what each side asks: the consumer whether there is an item to pop, the
\* producer whether there is room to push, both how many items there are
Observers(who) == IF who = "producer" THEN {"full", "size"} ELSE {"empty", "size"}

\* the rings observed
ObsSizes == {Pow2(1), Pow2(2)}

\* the thread is between two operations of its own
OwnerIdle(who) == IF who = "producer" THEN ppc = "idle" ELSE cpc = "idle"

\* the index an observer loads first: full() and size() load m_tail first;
\* the operands of == in empty() are loaded in either order
FirstLoads(fn) == IF fn = "empty" THEN {"head", "tail"} ELSE {"tail"}

\* return m_head.load(acquire) == m_tail.load(acquire);
emptyReturn(head, tail) == head = tail

\* return next_tail == m_head.load(acquire);
fullReturn_sameIndex(tail, head) == tail = head
fullReturn(tail, head) == NextIndex(tail) = head

\* return (current_tail - current_head) & (Size - 1);
sizeReturn(tail, head) == BitAnd(SizeT(tail - head), Size - 1)

obsFrame == UNCHANGED <<ringVars, spscVars, emaVars, pipeVars, logVars, upd, lifeCall, lg, csv, moreVars>>

\* the first load of empty(), full() or size()
obs_first(who, fn) ==
    /\ OwnerIdle(who)
    /\ obs.pc # "second"
    /\ \E first \in FirstLoads(fn) :
         obs' = [who |-> who, fn |-> fn, pc |-> "second", loaded |-> first,
                 x |-> (IF first = "head" THEN m_head ELSE m_tail),
                 ret |-> 0, at |-> 0]
    /\ obsFrame

\* the second load and the value returned (a bool as 0 / 1, or the size);
\* "at" is the number of operations the caller has completed so far
obs_second ==
    /\ obs.pc = "second"
    /\ LET head == IF obs.loaded = "head" THEN obs.x ELSE m_head
           tail == IF obs.loaded = "tail" THEN obs.x ELSE m_tail
           ret  == IF obs.fn = "empty"
                   THEN (IF emptyReturn(head, tail) THEN 1 ELSE 0)
                   ELSE IF obs.fn = "full"
                   THEN (IF fullReturn(tail, head) THEN 1 ELSE 0)
                   ELSE sizeReturn(tail, head)
       IN  obs' = [obs EXCEPT !.pc = "done", !.ret = ret,
                              !.at = IF obs.who = "producer"
                                     THEN Len(pushed) ELSE Len(popped)]
    /\ obsFrame

\* the caller of an observer is inside it: it starts no push or pop
InObserver(who) == obs.who = who /\ obs.pc = "second"

\* the producer, back from any observer, enters push(v)
obs_push(v) ==
    /\ ~InObserver("producer")
    /\ Len(pushed) < MaxObsPush
    /\ P_LoadTail(v)

\* the consumer, back from any observer, enters pop()
obs_pop ==
    /\ ~InObserver("consumer")
    /\ C_LoadHead

NextObs ==
    \/ \E v \in Vals : obs_push(v)
    \/ P_LoadHead
    \/ P_AssignBegin
    \/ P_AssignEnd
    \/ P_StoreTail
    \/ obs_pop
    \/ C_LoadTail
    \/ C_MoveBegin
    \/ C_MoveEnd
    \/ C_StoreHead
    \/ \E who \in Owners : \E fn \in Observers(who) : obs_first(who, fn)
    \/ obs_second

InitObs ==
    /\ InitRing
    /\ Size \in ObsSizes

SpecObs == InitObs /\ [][NextObs]_vars

(***************************************************************************)
(* Ring buffer properties                                                  *)
(***************************************************************************)

\* C1: the values returned by successful pops are a prefix of the values
\* accepted by successful pushes, in the same order (FIFO), whatever failed
\* pushes, failed pops and index wrap-arounds happened in between.
C1_PopsArePrefixOfPushes == IsPrefix(popped, pushed)

\* C1 witness: a ring whose indices have wrapped around has returned two
\* different values in pushing order and has just refused a push.
C1_Witness ==
    /\ Len(popped) >= Size
    /\ popped[1] # popped[2]
    /\ call.op = "push" /\ ~call.ret

\* C2: size() never exceeds capacity() = Size - 1, equals the number of
\* successful pushes minus the number of successful pops, empty() holds
\* exactly when size() = 0 (head = tail), and full() exactly when
\* size() = Size - 1.
C2_SizeAccounting ==
    /\ size <= capacity
    /\ capacity = Size - 1
    /\ size = Len(pushed) - Len(popped)
    /\ empty <=> (m_head = m_tail)
    /\ empty <=> (size = 0)
    /\ full <=> (size = Size - 1)

\* C2 witness: the size-2 ring (capacity 1) is full with one item while the
\* tail index has wrapped below the head index.
C2_Witness ==
    /\ Size = 2
    /\ full
    /\ size = 1
    /\ m_tail < m_head

\* C3: push returns true iff (tail + 1) mod Size # head when it is called;
\* a refused push leaves head, tail, every slot and the argument unchanged;
\* an accepted push stores the item in the slot at the old tail, leaves the
\* other slots and head alone and advances tail by one modulo Size.
C3_PushContract ==
    [][ call'.op = "push" =>
          /\ call'.ret <=> ((m_tail + 1) % Size # m_head)
          /\ ~call'.ret =>
                /\ m_head' = m_head
                /\ m_tail' = m_tail
                /\ m_buffer' = m_buffer
                /\ call'.argAfter = call'.arg
          /\ call'.ret =>
                /\ m_buffer'[m_tail] = call'.arg
                /\ \A i \in (0..(Size - 1)) \ {m_tail} : m_buffer'[i] = m_buffer[i]
                /\ m_tail' = (m_tail + 1) % Size
                /\ m_head' = m_head ]_vars

\* C3 witness: a push was refused on a full ring whose tail had wrapped.
C3_Witness ==
    /\ call.op = "push"
    /\ ~call.ret
    /\ call.argAfter = call.arg
    /\ full
    /\ m_tail < m_head

\* C4: pop returns true iff head # tail when it is called; a failed pop
\* leaves head, tail and the output argument unchanged; a successful pop
\* gives the output argument the item stored at the old head, leaves tail
\* alone and advances head by one modulo Size.
C4_PopContract ==
    [][ call'.op = "pop" =>
          /\ call'.ret <=> (m_head # m_tail)
          /\ ~call'.ret =>
                /\ m_head' = m_head
                /\ m_tail' = m_tail
                /\ popItem' = popItem
          /\ call'.ret =>
                /\ popItem' = m_buffer[m_head]
                /\ m_head' = (m_head + 1) % Size
                /\ m_tail' = m_tail ]_vars

\* C4 witness: a pop succeeded and wrapped head back to 0, after an earlier
\* value was already in the output argument.
C4_Witness ==
    /\ call.op = "pop"
    /\ call.ret
    /\ call.arg \in Vals
    /\ popItem = call.argAfter
    /\ m_head = 0
    /\ Len(popped) >= Size

\* the slots that hold items pushed and not yet released by the consumer
Occupied == { (m_head + k) % Size : k \in 0..(size - 1) }

\* C5: with one producer and one consumer interleaved step by step, the slot
\* the consumer is reading is a completely written, published item (the next
\* one in pushing order), and the slot the producer is writing is neither
\* being read nor holding an item the consumer has not finished reading.
C5_NoSlotRace ==
    /\ rd # -1 =>
          /\ wr # rd
          /\ m_buffer[rd] = pushed[Len(popped) + 1]
    /\ wr # -1 =>
          /\ wr # rd
          /\ wr \notin Occupied
    /\ IsPrefix(popped, pushed)

\* C5 witness: the producer is assigning one slot while the consumer is
\* moving out of another, on a ring whose tail has wrapped.
C5_Witness ==
    /\ wr # -1
    /\ rd # -1
    /\ wr # rd
    /\ m_tail < m_head

(***************************************************************************)
(* Several threads in AsyncCSVLogger::logTickerData on one logger that is  *)
(* ready: each is in m_logQueue.push(data), statement by statement, while  *)
(* the logging thread pops.  Records are numbered in calling order.        *)
(***************************************************************************)
mpFrame == UNCHANGED <<emaVars, pipeVars, logVars, upd, lifeCall, lg, csv, obs, th, fl, wc, ws, spscVars>>

\* logTickerData(data): const size_t current_tail = m_tail.load(relaxed);
mp_LoadTail(t) ==
    /\ mp.pc[t] = "idle"
    /\ mp.calls < MaxLogCalls
    /\ mp' = [mp EXCEPT !.calls = @ + 1, !.pc[t] = "check",
                        !.tail[t] = m_tail, !.item[t] = mp.calls + 1]
    /\ UNCHANGED ringVars
    /\ mpFrame

\* if (next_tail == m_head.load(acquire)) return false;
mp_LoadHead(t) ==
    /\ mp.pc[t] = "check"
    /\ mp' = [mp EXCEPT !.pc[t] = IF PushFull(mp.tail[t], m_head) THEN "idle" ELSE "write"]
    /\ UNCHANGED ringVars
    /\ mpFrame

\* m_buffer[current_tail] = item;   (the assignment starts)
mp_AssignBegin(t) ==
    /\ mp.pc[t] = "write"
    /\ m_buffer' = [m_buffer EXCEPT ![mp.tail[t]] = Torn]
    /\ mp' = [mp EXCEPT !.pc[t] = "writing"]
    /\ UNCHANGED <<Size, m_head, m_tail, pushed, popped, call, popItem>>
    /\ mpFrame

\* m_buffer[current_tail] = item;   (the assignment is complete)
\* two assignments to one slot that overlap are a data race: the slot then
\* holds an arbitrary value
mp_AssignEnd(t) ==
    /\ mp.pc[t] = "writing"
    /\ LET raced == \/ m_buffer[mp.tail[t]] # Torn
                    \/ \E u \in Threads \ {t} :
                          mp.pc[u] = "writing" /\ mp.tail[u] = mp.tail[t]
       IN  IF raced
           THEN \E v \in {mp.item[u] : u \in Threads} \cup {Blank} :
                   m_buffer' = [m_buffer EXCEPT ![mp.tail[t]] = v]
           ELSE m_buffer' = [m_buffer EXCEPT ![mp.tail[t]] = mp.item[t]]
    /\ mp' = [mp EXCEPT !.pc[t] = "publish"]
    /\ UNCHANGED <<Size, m_head, m_tail, pushed, popped, call, popItem>>
    /\ mpFrame

\* m_tail.store(next_tail, release); return true;
mp_StoreTail(t) ==
    /\ mp.pc[t] = "publish"
    /\ m_tail' = NextIndex(mp.tail[t])
    /\ pushed' = Append(pushed, mp.item[t])
    /\ mp' = [mp EXCEPT !.pc[t] = "idle"]
    /\ UNCHANGED <<Size, m_buffer, m_head, popped, call, popItem>>
    /\ mpFrame

InitLogCalls ==
    /\ InitRing
    /\ Size \in ObsSizes

NextLogCalls ==
    \/ \E t \in Threads : mp_LoadTail(t)
    \/ \E t \in Threads : mp_LoadHead(t)
    \/ \E t \in Threads : mp_AssignBegin(t)
    \/ \E t \in Threads : mp_AssignEnd(t)
    \/ \E t \in Threads : mp_StoreTail(t)
    \/ C_LoadHead
    \/ C_LoadTail
    \/ C_MoveBegin
    \/ C_MoveEnd
    \/ C_StoreHead

SpecLogCalls == InitLogCalls /\ [][NextLogCalls]_vars

(***************************************************************************)
(* AsyncCSVLogger::logThreadFunction against the clock                     *)
(* (HighResTimer::nowMicros, in microseconds).  One pass of the while      *)
(* (m_running) loop takes no time; the clock moves between two passes.     *)
(***************************************************************************)
FLUSH_INTERVAL_MICROS == 10000
IdlePauseMicros == 10
ClockStepMicros == 5000

flFrame == UNCHANGED <<ringVars, spscVars, emaVars, pipeVars, logVars, upd, lifeCall, lg,
                       csv, obs, th, mp, wc, ws>>

\* logTickerData(data) on the ready logger: the record is queued
fl_logTickerData ==
    /\ fl.passed < MaxFlushRows
    /\ fl' = [fl EXCEPT !.passed = @ + 1, !.pending = @ + 1]
    /\ flFrame

\* the clock moves between two passes of the loop
fl_clock ==
    /\ fl.now < MaxClockSteps * ClockStepMicros
    /\ fl' = [fl EXCEPT !.now = @ + ClockStepMicros]
    /\ flFrame

\* one pass of while (m_running.load()): write every queued record to the
\* stream; if (hadData) flush when FLUSH_INTERVAL_MICROS have passed since
\* lastFlushTime; if (!hadData) sleepMicros(10)
fl_pass ==
    /\ LET hadData == fl.pending > 0
           due == hadData /\ fl.now - fl.lastFlushTime >= FLUSH_INTERVAL_MICROS
       IN  fl' = [fl EXCEPT
                    !.pending = 0,
                    !.written = @ + fl.pending,
                    !.oldest = IF hadData /\ fl.written = fl.flushed THEN fl.now ELSE @,
                    !.flushed = IF due THEN fl.written + fl.pending ELSE @,
                    !.lastFlushTime = IF due THEN fl.now ELSE @]
    /\ flFrame

InitFlush ==
    /\ InitRing
    /\ Size = Pow2(1)

NextFlush ==
    \/ fl_logTickerData
    \/ fl_clock
    \/ fl_pass

SpecFlush == InitFlush /\ [][NextFlush]_vars

(***************************************************************************)
(* EMACalculator: operations (each runs under m_mutex)                     *)
(***************************************************************************)
nonEmaVars == <<ringVars, spscVars, pipeVars, logVars, upd, extVars>>

\* the stores of updatePriceEMA and the value it returns
priceStores(price, currentTime) ==
    IF ~shouldUpdatePrice(currentTime)
    THEN UNCHANGED <<m_priceEMA, m_priceInitialized, m_priceLastUpdate>>
    ELSE /\ m_priceEMA' = StoredEMA(m_priceInitialized, price, m_priceEMA)
         /\ m_priceInitialized' = TRUE
         /\ m_priceLastUpdate' = currentTime

priceReturn(price, currentTime) ==
    IF ~shouldUpdatePrice(currentTime)
    THEN m_priceEMA
    ELSE StoredEMA(m_priceInitialized, price, m_priceEMA)

\* the stores of updateMidPriceEMA and the value it returns
midPriceStores(midPrice, currentTime) ==
    IF ~shouldUpdateMidPrice(currentTime)
    THEN UNCHANGED <<m_midPriceEMA, m_midPriceInitialized, m_midPriceLastUpdate>>
    ELSE /\ m_midPriceEMA' = StoredEMA(m_midPriceInitialized, midPrice, m_midPriceEMA)
         /\ m_midPriceInitialized' = TRUE
         /\ m_midPriceLastUpdate' = currentTime

midPriceReturn(midPrice, currentTime) ==
    IF ~shouldUpdateMidPrice(currentTime)
    THEN m_midPriceEMA
    ELSE StoredEMA(m_midPriceInitialized, midPrice, m_midPriceEMA)

\* double updatePriceEMA(double price, const time_point& currentTime)
updatePriceEMA_sharedTime(price, currentTime) ==
    /\ priceStores(price, currentTime)
    /\ emaCall' = [op |-> "price", sample |-> price, time |-> currentTime,
                   ret |-> priceReturn(price, currentTime),
                   wasInit |-> m_priceInitialized,
                   prior |-> m_priceEMA, priorLast |-> m_priceLastUpdate]
    /\ m_midPriceLastUpdate' = m_priceLastUpdate'
    /\ UNCHANGED <<m_interval, m_alpha, m_midPriceEMA, m_midPriceInitialized>>

updatePriceEMA(price, currentTime) ==
    /\ priceStores(price, currentTime)
    /\ emaCall' = [op |-> "price", sample |-> price, time |-> currentTime,
                   ret |-> priceReturn(price, currentTime),
                   wasInit |-> m_priceInitialized,
                   prior |-> m_priceEMA, priorLast |-> m_priceLastUpdate]
    /\ UNCHANGED <<m_interval, m_alpha, m_midPriceEMA, m_midPriceInitialized,
                   m_midPriceLastUpdate>>

\* double updateMidPriceEMA(double midPrice, const time_point& currentTime)
updateMidPriceEMA(midPrice, currentTime) ==
    /\ midPriceStores(midPrice, currentTime)
    /\ emaCall' = [op |-> "mid", sample |-> midPrice, time |-> currentTime,
                   ret |-> midPriceReturn(midPrice, currentTime),
                   wasInit |-> m_midPriceInitialized,
                   prior |-> m_midPriceEMA, priorLast |-> m_midPriceLastUpdate]
    /\ UNCHANGED <<m_interval, m_alpha, m_priceEMA, m_priceInitialized,
                   m_priceLastUpdate>>

\* void reset()
reset_priceOnly ==
    /\ m_priceEMA' = R(0)
    /\ m_priceInitialized' = FALSE
    /\ emaCall' = [NoEmaCall EXCEPT !.op = "reset"]
    /\ UNCHANGED <<m_interval, m_alpha, m_priceLastUpdate, m_midPriceLastUpdate,
                   m_midPriceEMA, m_midPriceInitialized>>

reset ==
    /\ m_priceEMA' = R(0)
    /\ m_midPriceEMA' = R(0)
    /\ m_priceInitialized' = FALSE
    /\ m_midPriceInitialized' = FALSE
    /\ emaCall' = [NoEmaCall EXCEPT !.op = "reset"]
    /\ UNCHANGED <<m_interval, m_alpha, m_priceLastUpdate, m_midPriceLastUpdate>>

\* double getPriceEMA() const / double getMidPriceEMA() const
getPriceEMA == m_priceEMA
getMidPriceEMA == m_midPriceEMA

\* bool isPriceInitialized() const / bool isMidPriceInitialized() const
isPriceInitialized == m_priceInitialized
isMidPriceInitialized == m_midPriceInitialized

InitEMA ==
    /\ Size = 2
    /\ m_buffer = [i \in 0..1 |-> Blank]
    /\ RingIdle
    /\ SpscIdle
    /\ PipeIdle
    /\ loggerKind = "sync"
    /\ LogIdle
    /\ \E n \in Intervals : EMACalculator(n)
    /\ StepIdle

\* the calls made on an EMACalculator that stands alone
UpdatePrice(s, t)    == updatePriceEMA(R(s), t) /\ UNCHANGED nonEmaVars
UpdateMidPrice(s, t) == updateMidPriceEMA(R(s), t) /\ UNCHANGED nonEmaVars
Reset                == reset /\ UNCHANGED nonEmaVars

NextEMA ==
    \/ \E s \in Samples, t \in Times : UpdatePrice(s, t)
    \/ \E s \in Samples, t \in Times : UpdateMidPrice(s, t)
    \/ Reset

SpecEMA == InitEMA /\ [][NextEMA]_vars

(***************************************************************************)
(* Fixed-point formatting with eight fractional digits                     *)
(* (std::fixed << std::setprecision(8)), for values >= 0: the integer part *)
(* and the eight rounded fractional digits, by long division.              *)
(***************************************************************************)
RECURSIVE FracDigits(_, _, _, _)
FracDigits(rem, den, k, acc) ==
    IF k = 0
    THEN (IF 2 * rem >= den THEN acc + 1 ELSE acc)
    ELSE FracDigits((rem * 10) % den, den, k - 1, acc * 10 + ((rem * 10) \div den))

Fixed8(r) ==
    LET ip   == r[1] \div r[2]
        frac == FracDigits(r[1] % r[2], r[2], 8, 0)
    IN  IF frac = 100000000 THEN <<ip + 1, 0>> ELSE <<ip, frac>>

(***************************************************************************)
(* EMA properties                                                          *)
(***************************************************************************)

\* C8: the first update of an uninitialized EMA (price or mid-price, after
\* construction or after reset, whatever the sample and the time) returns
\* exactly the sample, marks that EMA initialized and makes its getter
\* return the sample.
C8_FirstSampleIdentity ==
    [][ /\ (emaCall'.op = "price" /\ ~m_priceInitialized) =>
              /\ emaCall'.ret = emaCall'.sample
              /\ isPriceInitialized'
              /\ getPriceEMA' = emaCall'.sample
        /\ (emaCall'.op = "mid" /\ ~m_midPriceInitialized) =>
              /\ emaCall'.ret = emaCall'.sample
              /\ isMidPriceInitialized'
              /\ getMidPriceEMA' = emaCall'.sample ]_vars

\* C8 witness: after a reset, a first price update whose event time lies
\* before the last update made before the reset returned its sample.
C8_Witness ==
    /\ emaCall.op = "price"
    /\ ~emaCall.wasInit
    /\ emaCall.time < emaCall.priorLast
    /\ emaCall.ret = emaCall.sample
    /\ m_priceInitialized
    /\ m_priceEMA = emaCall.sample

\* C9: an update of an initialized EMA whose time is less than one interval
\* after the last applied update (also when it is equal or earlier) returns
\* the pre-update value and changes neither the value, the last-update time
\* nor the initialized flag; an update at least one interval later is
\* accepted and becomes the new last-update time.
C9_TimeGate ==
    [][ /\ (emaCall'.op = "price" /\ m_priceInitialized) =>
              IF emaCall'.time - m_priceLastUpdate < m_interval
              THEN /\ emaCall'.ret = m_priceEMA
                   /\ UNCHANGED <<m_priceEMA, m_priceLastUpdate, m_priceInitialized>>
              ELSE /\ m_priceLastUpdate' = emaCall'.time
                   /\ m_priceInitialized'
        /\ (emaCall'.op = "mid" /\ m_midPriceInitialized) =>
              IF emaCall'.time - m_midPriceLastUpdate < m_interval
              THEN /\ emaCall'.ret = m_midPriceEMA
                   /\ UNCHANGED <<m_midPriceEMA, m_midPriceLastUpdate, m_midPriceInitialized>>
              ELSE /\ m_midPriceLastUpdate' = emaCall'.time
                   /\ m_midPriceInitialized' ]_vars

\* C9 witness: an initialized price EMA was given a different sample with a
\* time earlier than its last update; the old value came back and the
\* last-update time stayed.
C9_Witness ==
    /\ emaCall.op = "price"
    /\ emaCall.wasInit
    /\ emaCall.time < emaCall.priorLast
    /\ emaCall.sample # emaCall.prior
    /\ emaCall.ret = emaCall.prior
    /\ m_priceEMA = emaCall.prior
    /\ m_priceLastUpdate = emaCall.priorLast

\* new = (2 / (n + 1)) * sample + (1 - 2 / (n + 1)) * prior, cross-multiplied
\* over the integers
IsRecurrence(new, sample, prior, n) ==
    new[1] * (n + 1) * prior[2] * sample[2]
        = new[2] * (2 * sample[1] * prior[2] + (n - 1) * prior[1] * sample[2])

\* C10: an update of an initialized EMA that passes the time gate stores and
\* returns alpha * sample + (1 - alpha) * prior value, with
\* alpha = 2 / (interval seconds + 1), and the last-update time becomes the
\* supplied time.
C10_Recurrence ==
    [][ /\ (emaCall'.op = "price" /\ m_priceInitialized
              /\ emaCall'.time - m_priceLastUpdate >= m_interval) =>
              /\ IsRecurrence(m_priceEMA', emaCall'.sample, m_priceEMA, m_interval)
              /\ emaCall'.ret = m_priceEMA'
              /\ m_priceLastUpdate' = emaCall'.time
        /\ (emaCall'.op = "mid" /\ m_midPriceInitialized
              /\ emaCall'.time - m_midPriceLastUpdate >= m_interval) =>
              /\ IsRecurrence(m_midPriceEMA', emaCall'.sample, m_midPriceEMA, m_interval)
              /\ emaCall'.ret = m_midPriceEMA'
              /\ m_midPriceLastUpdate' = emaCall'.time ]_vars

\* C10 witness: with a 5-second interval, samples 100 then 200 six seconds
\* apart give 400/3, printed as 133.33333333.
C10_Witness ==
    /\ m_interval = 5
    /\ emaCall.op = "price"
    /\ emaCall.wasInit
    /\ emaCall.prior = R(100)
    /\ emaCall.sample = R(200)
    /\ emaCall.time - emaCall.priorLast = 6
    /\ m_priceLastUpdate = emaCall.time
    /\ m_priceEMA = <<400, 3>>
    /\ Fixed8(m_priceEMA) = <<133, 33333333>>

\* C11: reset() leaves both EMAs uninitialized with both getters returning
\* 0; the next update of an uninitialized EMA is taken as a first sample
\* whatever its event time (also one earlier than the last update made
\* before the reset); and an update call never turns an initialized EMA
\* back into an uninitialized one: only reset() does.
C11_Reset ==
    [][ /\ emaCall'.op = "reset" =>
              /\ ~isPriceInitialized' /\ ~isMidPriceInitialized'
              /\ getPriceEMA' = R(0) /\ getMidPriceEMA' = R(0)
        /\ (emaCall'.op = "price" /\ ~isPriceInitialized) =>
              /\ emaCall'.ret = emaCall'.sample
              /\ isPriceInitialized' /\ m_priceLastUpdate' = emaCall'.time
        /\ (emaCall'.op = "mid" /\ ~isMidPriceInitialized) =>
              /\ emaCall'.ret = emaCall'.sample
              /\ isMidPriceInitialized' /\ m_midPriceLastUpdate' = emaCall'.time
        /\ (isPriceInitialized /\ ~isPriceInitialized') => emaCall'.op = "reset"
        /\ (isMidPriceInitialized /\ ~isMidPriceInitialized') => emaCall'.op = "reset"
      ]_vars

\* C11 witness: both EMAs had been updated, reset() was called, and the
\* mid-price EMA then took a sample with an earlier event time as its first
\* sample, while the price EMA is still uninitialized and reads 0.
C11_Witness ==
    /\ emaCall.op = "mid"
    /\ ~emaCall.wasInit
    /\ emaCall.time < emaCall.priorLast
    /\ emaCall.ret = emaCall.sample
    /\ isMidPriceInitialized
    /\ ~isPriceInitialized
    /\ getPriceEMA = R(0)
    /\ m_priceLastUpdate > 0

(***************************************************************************)
(* EMACalculator statement by statement.  updatePriceEMA, updateMidPriceEMA *)
(* and reset run one at a time (std::lock_guard on m_mutex); the getters    *)
(* and the is*Initialized readers take no lock, so another thread can read  *)
(* the members between any two statements of the call in progress.         *)
(***************************************************************************)
\* what an observer reads: (isPriceInitialized(), getPriceEMA()) and the same
\* for the mid-price
PriceSnapshot == <<isPriceInitialized, getPriceEMA>>
MidSnapshot == <<isMidPriceInitialized, getMidPriceEMA>>
Snapshots == [price |-> PriceSnapshot, mid |-> MidSnapshot]

stepFrame == UNCHANGED <<ringVars, spscVars, pipeVars, logVars, extVars, m_interval, m_alpha, emaCall>>

\* updatePriceEMA: std::lock_guard lock(m_mutex)
u_priceLock(price, currentTime) ==
    /\ upd.pc = "idle"
    /\ upd' = [pc |-> "price_gate", op |-> "price", sample |-> price, time |-> currentTime,
               pre |-> Snapshots,
               post |-> [Snapshots EXCEPT !.price =
                           IF shouldUpdatePrice(currentTime)
                           THEN <<TRUE, StoredEMA(m_priceInitialized, price, m_priceEMA)>>
                           ELSE PriceSnapshot]]
    /\ UNCHANGED <<m_priceEMA, m_priceInitialized, m_priceLastUpdate,
                   m_midPriceEMA, m_midPriceInitialized, m_midPriceLastUpdate>>
    /\ stepFrame

\* updatePriceEMA: if (!shouldUpdatePrice(currentTime)) return m_priceEMA.load();
u_priceGate ==
    /\ upd.pc = "price_gate"
    /\ upd' = IF shouldUpdatePrice(upd.time) THEN [upd EXCEPT !.pc = "price_store"]
              ELSE NoUpd
    /\ UNCHANGED <<m_priceEMA, m_priceInitialized, m_priceLastUpdate,
                   m_midPriceEMA, m_midPriceInitialized, m_midPriceLastUpdate>>
    /\ stepFrame

\* updatePriceEMA: m_priceEMA.store(price) or m_priceEMA.store(newEMA)
u_priceStore ==
    /\ upd.pc = "price_store"
    /\ m_priceEMA' = StoredEMA(m_priceInitialized, upd.sample, m_priceEMA)
    /\ upd' = [upd EXCEPT !.pc = IF m_priceInitialized THEN "price_time" ELSE "price_flag"]
    /\ UNCHANGED <<m_priceInitialized, m_priceLastUpdate,
                   m_midPriceEMA, m_midPriceInitialized, m_midPriceLastUpdate>>
    /\ stepFrame

\* updatePriceEMA: m_priceInitialized = true
u_priceFlag ==
    /\ upd.pc = "price_flag"
    /\ m_priceInitialized' = TRUE
    /\ upd' = [upd EXCEPT !.pc = "price_time"]
    /\ UNCHANGED <<m_priceEMA, m_priceLastUpdate,
                   m_midPriceEMA, m_midPriceInitialized, m_midPriceLastUpdate>>
    /\ stepFrame

\* updatePriceEMA: m_priceLastUpdate = currentTime; return m_priceEMA.load();
u_priceTime ==
    /\ upd.pc = "price_time"
    /\ m_priceLastUpdate' = upd.time
    /\ upd' = NoUpd
    /\ UNCHANGED <<m_priceEMA, m_priceInitialized,
                   m_midPriceEMA, m_midPriceInitialized, m_midPriceLastUpdate>>
    /\ stepFrame

\* updateMidPriceEMA: std::lock_guard lock(m_mutex)
u_midLock(midPrice, currentTime) ==
    /\ upd.pc = "idle"
    /\ upd' = [pc |-> "mid_gate", op |-> "mid", sample |-> midPrice, time |-> currentTime,
               pre |-> Snapshots,
               post |-> [Snapshots EXCEPT !.mid =
                           IF shouldUpdateMidPrice(currentTime)
                           THEN <<TRUE, StoredEMA(m_midPriceInitialized, midPrice, m_midPriceEMA)>>
                           ELSE MidSnapshot]]
    /\ UNCHANGED <<m_priceEMA, m_priceInitialized, m_priceLastUpdate,
                   m_midPriceEMA, m_midPriceInitialized, m_midPriceLastUpdate>>
    /\ stepFrame

\* updateMidPriceEMA: if (!shouldUpdateMidPrice(currentTime)) return m_midPriceEMA.load();
u_midGate ==
    /\ upd.pc = "mid_gate"
    /\ upd' = IF shouldUpdateMidPrice(upd.time) THEN [upd EXCEPT !.pc = "mid_store"]
              ELSE NoUpd
    /\ UNCHANGED <<m_priceEMA, m_priceInitialized, m_priceLastUpdate,
                   m_midPriceEMA, m_midPriceInitialized, m_midPriceLastUpdate>>
    /\ stepFrame

\* updateMidPriceEMA: m_midPriceEMA.store(midPrice) or m_midPriceEMA.store(newEMA)
u_midStore ==
    /\ upd.pc = "mid_store"
    /\ m_midPriceEMA' = StoredEMA(m_midPriceInitialized, upd.sample, m_midPriceEMA)
    /\ upd' = [upd EXCEPT !.pc = IF m_midPriceInitialized THEN "mid_time" ELSE "mid_flag"]
    /\ UNCHANGED <<m_priceEMA, m_priceInitialized, m_priceLastUpdate,
                   m_midPriceInitialized, m_midPriceLastUpdate>>
    /\ stepFrame

\* updateMidPriceEMA: m_midPriceInitialized = true
u_midFlag ==
    /\ upd.pc = "mid_flag"
    /\ m_midPriceInitialized' = TRUE
    /\ upd' = [upd EXCEPT !.pc = "mid_time"]
    /\ UNCHANGED <<m_priceEMA, m_priceInitialized, m_priceLastUpdate,
                   m_midPriceEMA, m_midPriceLastUpdate>>
    /\ stepFrame

\* updateMidPriceEMA: m_midPriceLastUpdate = currentTime; return m_midPriceEMA.load();
u_midTime ==
    /\ upd.pc = "mid_time"
    /\ m_midPriceLastUpdate' = upd.time
    /\ upd' = NoUpd
    /\ UNCHANGED <<m_priceEMA, m_priceInitialized, m_priceLastUpdate,
                   m_midPriceEMA, m_midPriceInitialized>>
    /\ stepFrame

\* reset: std::lock_guard lock(m_mutex)
u_resetLock ==
    /\ upd.pc = "idle"
    /\ upd' = [NoUpd EXCEPT !.pc = "reset_price", !.op = "reset", !.pre = Snapshots,
                            !.post = [price |-> <<FALSE, R(0)>>, mid |-> <<FALSE, R(0)>>]]
    /\ UNCHANGED <<m_priceEMA, m_priceInitialized, m_priceLastUpdate,
                   m_midPriceEMA, m_midPriceInitialized, m_midPriceLastUpdate>>
    /\ stepFrame

\* reset: m_priceEMA.store(0.0)
u_resetPrice ==
    /\ upd.pc = "reset_price"
    /\ m_priceEMA' = R(0)
    /\ upd' = [upd EXCEPT !.pc = "reset_mid"]
    /\ UNCHANGED <<m_priceInitialized, m_priceLastUpdate,
                   m_midPriceEMA, m_midPriceInitialized, m_midPriceLastUpdate>>
    /\ stepFrame

\* reset: m_midPriceEMA.store(0.0)
u_resetMid ==
    /\ upd.pc = "reset_mid"
    /\ m_midPriceEMA' = R(0)
    /\ upd' = [upd EXCEPT !.pc = "reset_priceFlag"]
    /\ UNCHANGED <<m_priceEMA, m_priceInitialized, m_priceLastUpdate,
                   m_midPriceInitialized, m_midPriceLastUpdate>>
    /\ stepFrame

\* reset: m_priceInitialized = false
u_resetPriceFlag ==
    /\ upd.pc = "reset_priceFlag"
    /\ m_priceInitialized' = FALSE
    /\ upd' = [upd EXCEPT !.pc = "reset_midFlag"]
    /\ UNCHANGED <<m_priceEMA, m_priceLastUpdate,
                   m_midPriceEMA, m_midPriceInitialized, m_midPriceLastUpdate>>
    /\ stepFrame

\* reset: m_midPriceInitialized = false
u_resetMidFlag ==
    /\ upd.pc = "reset_midFlag"
    /\ m_midPriceInitialized' = FALSE
    /\ upd' = NoUpd
    /\ UNCHANGED <<m_priceEMA, m_priceInitialized, m_priceLastUpdate,
                   m_midPriceEMA, m_midPriceLastUpdate>>
    /\ stepFrame

NextEmaSteps ==
    \/ \E s \in Samples, t \in Times : u_priceLock(R(s), t)
    \/ u_priceGate
    \/ u_priceStore
    \/ u_priceFlag
    \/ u_priceTime
    \/ \E s \in Samples, t \in Times : u_midLock(R(s), t)
    \/ u_midGate
    \/ u_midStore
    \/ u_midFlag
    \/ u_midTime
    \/ u_resetLock
    \/ u_resetPrice
    \/ u_resetMid
    \/ u_resetPriceFlag
    \/ u_resetMidFlag

SpecEmaSteps == InitEMA /\ [][NextEmaSteps]_vars

(***************************************************************************)
(* Several threads calling updatePriceEMA, updateMidPriceEMA and reset on  *)
(* one EMACalculator.  Each call takes m_mutex (std::lock_guard) and runs  *)
(* its statements one at a time: gate, load, store, flag, time, return.    *)
(***************************************************************************)
\* the times the threads pass: the epoch, and one interval of either length
\* after it
CallTimes == {0} \cup Intervals

\* the members of the EMA a call works on
EmaOf(op) == IF op = "price" THEN m_priceEMA ELSE m_midPriceEMA
InitializedOf(op) == IF op = "price" THEN m_priceInitialized ELSE m_midPriceInitialized
ShouldUpdate(op, currentTime) ==
    IF op = "price" THEN shouldUpdatePrice(currentTime)
    ELSE shouldUpdateMidPrice(currentTime)

\* what the getters, flags and last-update times hold
EmaState ==
    [price |-> <<m_priceInitialized, m_priceEMA, m_priceLastUpdate>>,
     mid   |-> <<m_midPriceInitialized, m_midPriceEMA, m_midPriceLastUpdate>>]

\* the state a call leaves and the value it returns when it runs alone
RunAlone(op, sample, currentTime) ==
    IF op = "reset"
    THEN [state |-> [price |-> <<FALSE, R(0), m_priceLastUpdate>>,
                     mid   |-> <<FALSE, R(0), m_midPriceLastUpdate>>],
          ret |-> R(0)]
    ELSE LET after == IF ShouldUpdate(op, currentTime)
                      THEN <<TRUE, StoredEMA(InitializedOf(op), sample, EmaOf(op)), currentTime>>
                      ELSE EmaState[op]
         IN  [state |-> [EmaState EXCEPT ![op] = after], ret |-> after[2]]

thFrame == UNCHANGED <<ringVars, spscVars, pipeVars, logVars, upd, lifeCall, lg, csv, obs,
                       mp, fl, wc, ws, m_interval, m_alpha, emaCall>>

\* std::lock_guard<std::mutex> lock(m_mutex): the mutex is free
lock_guard_none(t) == TRUE
lock_guard(t) == th.holder = 0

\* the lock_guard goes out of scope
Unlocked(t) == IF th.holder = t THEN 0 ELSE th.holder

\* a thread enters updatePriceEMA, updateMidPriceEMA or reset
th_lock(t, op, sample, currentTime) ==
    /\ th.pc[t] = "idle"
    /\ th.calls < MaxThreadCalls
    /\ lock_guard(t)
    /\ th' = [th EXCEPT !.holder = t, !.calls = @ + 1,
                        !.pc[t] = IF op = "reset" THEN "reset_values" ELSE "gate",
                        !.op[t] = op, !.sample[t] = sample, !.time[t] = currentTime,
                        !.cur[t] = R(0), !.ret[t] = R(0),
                        !.seq[t] = RunAlone(op, sample, currentTime)]
    /\ UNCHANGED <<m_priceEMA, m_priceInitialized, m_priceLastUpdate,
                   m_midPriceEMA, m_midPriceInitialized, m_midPriceLastUpdate>>
    /\ thFrame

\* if (!shouldUpdate...(currentTime)) return m_...EMA.load();
th_gate(t) ==
    /\ th.pc[t] = "gate"
    /\ th' = IF ShouldUpdate(th.op[t], th.time[t])
             THEN [th EXCEPT !.pc[t] = "load"]
             ELSE [th EXCEPT !.pc[t] = "idle", !.ret[t] = EmaOf(th.op[t]),
                             !.holder = Unlocked(t)]
    /\ UNCHANGED <<m_priceEMA, m_priceInitialized, m_priceLastUpdate,
                   m_midPriceEMA, m_midPriceInitialized, m_midPriceLastUpdate>>
    /\ thFrame

\* if (!m_...Initialized) ... else { double currentEMA = m_...EMA.load();
th_load(t) ==
    /\ th.pc[t] = "load"
    /\ th' = IF InitializedOf(th.op[t])
             THEN [th EXCEPT !.pc[t] = "blend", !.cur[t] = EmaOf(th.op[t])]
             ELSE [th EXCEPT !.pc[t] = "first"]
    /\ UNCHANGED <<m_priceEMA, m_priceInitialized, m_priceLastUpdate,
                   m_midPriceEMA, m_midPriceInitialized, m_midPriceLastUpdate>>
    /\ thFrame

\* m_...EMA.store(price)  /  m_...EMA.store(newEMA)
th_store(t) ==
    /\ th.pc[t] \in {"first", "blend"}
    /\ LET v == IF th.pc[t] = "first" THEN th.sample[t]
                ELSE Smooth(th.sample[t], th.cur[t])
       IN  IF th.op[t] = "price"
           THEN m_priceEMA' = v /\ UNCHANGED m_midPriceEMA
           ELSE m_midPriceEMA' = v /\ UNCHANGED m_priceEMA
    /\ th' = [th EXCEPT !.pc[t] = IF th.pc[t] = "first" THEN "flag" ELSE "time"]
    /\ UNCHANGED <<m_priceInitialized, m_priceLastUpdate,
                   m_midPriceInitialized, m_midPriceLastUpdate>>
    /\ thFrame

\* m_...Initialized = true
th_flag(t) ==
    /\ th.pc[t] = "flag"
    /\ IF th.op[t] = "price"
       THEN m_priceInitialized' = TRUE /\ UNCHANGED m_midPriceInitialized
       ELSE m_midPriceInitialized' = TRUE /\ UNCHANGED m_priceInitialized
    /\ th' = [th EXCEPT !.pc[t] = "time"]
    /\ UNCHANGED <<m_priceEMA, m_priceLastUpdate, m_midPriceEMA, m_midPriceLastUpdate>>
    /\ thFrame

\* m_...LastUpdate = currentTime; return m_...EMA.load();
th_time(t) ==
    /\ th.pc[t] = "time"
    /\ IF th.op[t] = "price"
       THEN m_priceLastUpdate' = th.time[t] /\ UNCHANGED m_midPriceLastUpdate
       ELSE m_midPriceLastUpdate' = th.time[t] /\ UNCHANGED m_priceLastUpdate
    /\ th' = [th EXCEPT !.pc[t] = "idle", !.ret[t] = EmaOf(th.op[t]),
                        !.holder = Unlocked(t)]
    /\ UNCHANGED <<m_priceEMA, m_priceInitialized, m_midPriceEMA, m_midPriceInitialized>>
    /\ thFrame

\* reset: m_priceEMA.store(0.0); m_midPriceEMA.store(0.0);
th_resetValues(t) ==
    /\ th.pc[t] = "reset_values"
    /\ m_priceEMA' = R(0)
    /\ m_midPriceEMA' = R(0)
    /\ th' = [th EXCEPT !.pc[t] = "reset_flags"]
    /\ UNCHANGED <<m_priceInitialized, m_priceLastUpdate,
                   m_midPriceInitialized, m_midPriceLastUpdate>>
    /\ thFrame

\* reset: m_priceInitialized = false; m_midPriceInitialized = false;
th_resetFlags(t) ==
    /\ th.pc[t] = "reset_flags"
    /\ m_priceInitialized' = FALSE
    /\ m_midPriceInitialized' = FALSE
    /\ th' = [th EXCEPT !.pc[t] = "idle", !.holder = Unlocked(t)]
    /\ UNCHANGED <<m_priceEMA, m_priceLastUpdate, m_midPriceEMA, m_midPriceLastUpdate>>
    /\ thFrame

NextEmaThreads ==
    \/ \E t \in Threads, op \in {"price", "mid"}, s \in Samples, time \in CallTimes :
          th_lock(t, op, R(s), time)
    \/ \E t \in Threads : th_lock(t, "reset", R(0), 0)
    \/ \E t \in Threads : th_gate(t)
    \/ \E t \in Threads : th_load(t)
    \/ \E t \in Threads : th_store(t)
    \/ \E t \in Threads : th_flag(t)
    \/ \E t \in Threads : th_time(t)
    \/ \E t \in Threads : th_resetValues(t)
    \/ \E t \in Threads : th_resetFlags(t)

SpecEmaThreads == InitEMA /\ [][NextEmaThreads]_vars

\* C12: whenever an update or a reset is in progress, an observer calling the
\* getter and the is-initialized reader of one EMA sees either the
\* (initialized, value) pair that EMA had before the call or the pair it has
\* after it, never a mixture of the two.
C12_ConsistentSnapshot ==
    upd.pc # "idle" =>
        /\ PriceSnapshot \in {upd.pre.price, upd.post.price}
        /\ MidSnapshot \in {upd.pre.mid, upd.post.mid}

(***************************************************************************)
(* Frames and records                                                      *)
(***************************************************************************)
BadPrice == -1           \* a price text that std::stod cannot parse
FramePrices == Samples \cup {BadPrice}
FrameMids   == {150}
FrameTimes  == {0, DefaultInterval + 1}

\* a frame as nlohmann::json::parse sees it: whether it parses, the value of
\* "type" and whether "product_id" is there, the values of "price", of the
\* mid price that best_bid and best_ask give, and of "time" (Absent: no such
\* key)
Absent == -2
TickerFrame(price, mid_price, time) ==
    [json |-> TRUE, type |-> "ticker", product_id |-> TRUE,
     price |-> price, mid_price |-> mid_price, time |-> time]
OtherFrame ==
    [json |-> TRUE, type |-> "subscriptions", product_id |-> FALSE,
     price |-> Absent, mid_price |-> 0, time |-> Absent]

\* the frames of a run of the pipeline.  The ticker frames are an early
\* trade at the low price, a trade more than one interval later at the high
\* price, and a trade whose price is not a number (its time is never read:
\* std::stod throws before the EMA is consulted)
Frames ==
    {f \in {TickerFrame(price, mid_price, time) :
                price \in FramePrices, mid_price \in FrameMids, time \in FrameTimes} :
        f.time = (IF f.price = 200 THEN DefaultInterval + 1 ELSE 0)}
    \cup {OtherFrame}

\* every kind of frame: also text that is not JSON, objects without "type",
\* of another type, without "product_id", without "price", and ticker
\* objects without "time"
AllFrames ==
    Frames \cup
    { [OtherFrame EXCEPT !.json = FALSE],
      [OtherFrame EXCEPT !.type = "absent"],
      [TickerFrame(100, 150, 0) EXCEPT !.type = "heartbeat"],
      [TickerFrame(100, 150, 0) EXCEPT !.type = "absent"],
      [TickerFrame(100, 150, 0) EXCEPT !.product_id = FALSE],
      [TickerFrame(100, 150, 0) EXCEPT !.price = Absent],
      TickerFrame(100, 150, Absent) }

\* bool JSONParser::isTickerMessage(jsonString)
isTickerMessage(frame) ==
    /\ frame.json
    /\ frame.type # "absent"
    /\ frame.product_id
    /\ frame.price # Absent
    /\ frame.type = "ticker"

\* bool JSONParser::parseTickerMessage(jsonString, tickerData)
parseTickerMessage(frame) == frame.json /\ isTickerMessage(frame)

\* JSONParser::parseTimestamp(timeString) calls cleanTime.back() first: on
\* the empty string that a missing "time" leaves, the behaviour is undefined
\* (an unhardened build goes on with a time in the past, a build with
\* library assertions aborts the process)
TimestampOutcomes(frame) ==
    IF frame.time = Absent THEN {"past", "abort"} ELSE {"parsed"}

\* a "time" text that is not an ISO 8601 timestamp
Unparseable == -3
TimeTexts == {Absent, Unparseable} \cup (1..MaxVal)

\* std::mktime(&tm) of the std::tm that std::get_time left zeroed: a fixed
\* instant before every wall-clock reading of a run
MktimeOfZeroedTm == 0

\* JSONParser::parseTimestamp(timeString), called when the wall clock reads
\* now: the set of its outcomes. cleanTime.back() on the empty string is
\* undefined (see TimestampOutcomes); std::get_time on a text it cannot read
\* sets failbit and throws nothing, so the catch block that returns
\* system_clock::now() is not entered and mktime(&tm) is returned
parseTimestamp(timeString, now) ==
    IF timeString = Absent
    THEN {[abort |-> FALSE, time |-> MktimeOfZeroedTm], [abort |-> TRUE, time |-> MktimeOfZeroedTm]}
    ELSE IF timeString = Unparseable
    THEN {[abort |-> FALSE, time |-> MktimeOfZeroedTm]}
    ELSE {[abort |-> FALSE, time |-> timeString]}

wcFrame == UNCHANGED <<ringVars, spscVars, emaVars, pipeVars, logVars, upd, lifeCall, lg,
                       csv, obs, th, mp, fl, ws>>

\* std::chrono::system_clock::now() moves on
wc_clock ==
    /\ ~wc.aborted
    /\ wc.now < MaxClockSteps
    /\ wc' = [wc EXCEPT !.now = @ + 1]
    /\ wcFrame

\* tickerData.timestamp = parseTimestamp(tickerData.time) for one frame
wc_parseTimestamp(timeString) ==
    /\ ~wc.aborted
    /\ Len(wc.decoded) < MaxFrames
    /\ \E outcome \in parseTimestamp(timeString, wc.now) :
          wc' = IF outcome.abort
                THEN [wc EXCEPT !.aborted = TRUE]
                ELSE [wc EXCEPT !.decoded = Append(@, [text |-> timeString, at |-> wc.now,
                                                        timestamp |-> outcome.time])]
    /\ wcFrame

InitTimestamp ==
    /\ InitRing
    /\ Size = Pow2(1)

NextTimestamp ==
    \/ wc_clock
    \/ \E timeString \in TimeTexts : wc_parseTimestamp(timeString)

SpecTimestamp == InitTimestamp /\ [][NextTimestamp]_vars

wsFrame == UNCHANGED <<ringVars, spscVars, emaVars, pipeVars, logVars, upd, lifeCall, lg,
                       csv, obs, th, mp, fl, wc>>

\* WebSocketClient::WebSocketClient(): g_instance = this
WebSocketClient(g, this) == this

\* WebSocketClient::~WebSocketClient(): disconnect(); g_instance = nullptr
WebSocketClient_destroy(g, this) == nullptr

\* WebSocketClient* WebSocketClient::getInstance(void* user)
getInstance == ws.g_instance

\* start() on an analyzer that is not running, initializeComponents():
\* std::make_unique<WebSocketClient>() builds the new client
ws_make ==
    /\ ws.pc \in {"constructed", "stopped", "failed"}
    /\ ws.calls < MaxCalls
    /\ ws' = [ws EXCEPT !.pc = "made", !.calls = @ + 1, !.made = @ + 1,
                        !.g_instance = WebSocketClient(@, ws.made + 1)]
    /\ wsFrame

\* m_websocketClient = (the new client): the unique_ptr takes the new client
\* and destroys the one it held, if any
ws_assign ==
    /\ ws.pc = "made"
    /\ ws' = [ws EXCEPT !.pc = "initialized",
                        !.m_websocketClient = ws.made,
                        !.m_connected = @ \ {ws.m_websocketClient},
                        !.g_instance = IF ws.m_websocketClient = nullptr THEN @
                                       ELSE WebSocketClient_destroy(@, ws.m_websocketClient)]
    /\ wsFrame

\* m_websocketClient->connect(uri): the context and the connection are
\* made, the I/O thread is started; the network then establishes the
\* connection or does not
ws_connect ==
    /\ ws.pc = "initialized"
    /\ \E event \in {"established", "none"} :
          ws' = [ws EXCEPT !.pc = "connecting", !.event = event]
    /\ wsFrame

\* callback(), LWS_CALLBACK_CLIENT_ESTABLISHED, on the I/O thread:
\* client = getInstance(user); if (!client) return -1;
\* client->m_connected = true
ws_established ==
    /\ ws.pc = "connecting"
    /\ ws.event = "established"
    /\ ws' = IF getInstance = nullptr
             THEN [ws EXCEPT !.event = "none", !.refused = @ + 1]
             ELSE [ws EXCEPT !.event = "none", !.m_connected = @ \cup {getInstance}]
    /\ wsFrame

\* connect(): after the wait, return m_connected.load(); start() goes on to
\* subscribe and to m_running.store(true), or cleans up and returns false
ws_connectReturn ==
    /\ ws.pc = "connecting"
    /\ ws' = IF ws.m_websocketClient \in ws.m_connected
             THEN [ws EXCEPT !.pc = "running"]
             ELSE [ws EXCEPT !.pc = "failed", !.event = "none"]
    /\ wsFrame

\* callback(), LWS_CALLBACK_CLIENT_RECEIVE, on the I/O thread: the frame is
\* handed to the message callback of the client that getInstance() names
ws_receive ==
    /\ ws.pc = "running"
    /\ ws.delivered + ws.refused < MaxFrames
    /\ ws' = IF getInstance = nullptr
             THEN [ws EXCEPT !.refused = @ + 1]
             ELSE [ws EXCEPT !.delivered = @ + 1]
    /\ wsFrame

\* stop() on the running analyzer: cleanupComponents():
\* m_websocketClient->disconnect()
ws_stop ==
    /\ ws.pc = "running"
    /\ ws.calls < MaxCalls
    /\ ws' = [ws EXCEPT !.pc = "stopped", !.calls = @ + 1, !.event = "none",
                        !.m_connected = @ \ {ws.m_websocketClient}]
    /\ wsFrame

InitClients ==
    /\ InitRing
    /\ Size = Pow2(1)

NextClients ==
    \/ ws_make
    \/ ws_assign
    \/ ws_connect
    \/ ws_established
    \/ ws_connectReturn
    \/ ws_receive
    \/ ws_stop

SpecClients == InitClients /\ [][NextClients]_vars

\* the TickerData that parseTickerMessage fills in; id: its ingress rank
ParsedTicker(frame, id) ==
    [id |-> id, price |-> frame.price, mid_price |-> frame.mid_price,
     time |-> IF frame.time = Absent THEN 0 ELSE frame.time,
     price_ema |-> R(0), mid_price_ema |-> R(0)]

HeaderRow == NoData
DataRows(f) == SelectSeq(f, LAMBDA row : row.id # 0)

(***************************************************************************)
(* CSVLogger (synchronous) and AsyncCSVLogger                              *)
(***************************************************************************)
\* writeHeaders() when needed, then the data row
WriteRow(data) ==
    /\ file' = (IF m_headersWritten THEN file ELSE Append(file, HeaderRow)) \o <<data>>
    /\ m_headersWritten' = TRUE

\* void CSVLogger::logTickerData(const TickerData& data)
syncLogTickerData(data) ==
    /\ IF ~fileOpen
       THEN UNCHANGED <<file, m_headersWritten>>
       ELSE WriteRow(data)
    /\ UNCHANGED <<loggerKind, fileOpen, log_running, log_ready, logPc, rowOf>>
    /\ UNCHANGED ringVars

\* bool AsyncCSVLogger::logTickerData(const TickerData& data)
asyncLogTickerData(data) ==
    /\ IF ~log_ready
       THEN UNCHANGED <<ringVars, rowOf>>
       ELSE /\ pushStores(data.id)
            /\ UNCHANGED call
            /\ rowOf' = IF PushFull(m_tail, m_head) THEN rowOf
                        ELSE [rowOf EXCEPT ![data.id] = data]
    /\ UNCHANGED <<loggerKind, fileOpen, m_headersWritten, file, log_running,
                   log_ready, logPc>>

\* m_csvLogger->logTickerData(data)
logTickerData(data) ==
    IF loggerKind = "sync" THEN syncLogTickerData(data) ELSE asyncLogTickerData(data)

\* the TickerData stored in a slot of m_logQueue
RowHeld(id) == IF id \in RecordIds THEN rowOf[id] ELSE NoData

\* logThreadFunction: m_ready.store(true)
log_start ==
    /\ logPc = "start"
    /\ log_ready' = TRUE
    /\ logPc' = "loop"
    /\ UNCHANGED <<loggerKind, fileOpen, m_headersWritten, file, log_running, rowOf>>
    /\ UNCHANGED <<ringVars, idleVars, emaVars, pipeVars>>

\* logThreadFunction: while (m_running.load())
log_loop_nodrain ==
    /\ logPc = "loop"
    /\ logPc' = IF log_running THEN "batch" ELSE "done"
    /\ UNCHANGED <<loggerKind, fileOpen, m_headersWritten, file, log_running,
                   log_ready, rowOf>>
    /\ UNCHANGED <<ringVars, idleVars, emaVars, pipeVars>>

log_loop ==
    /\ logPc = "loop"
    /\ logPc' = IF log_running THEN "batch" ELSE "drain"
    /\ UNCHANGED <<loggerKind, fileOpen, m_headersWritten, file, log_running,
                   log_ready, rowOf>>
    /\ UNCHANGED <<ringVars, idleVars, emaVars, pipeVars>>

\* logThreadFunction: while (m_logQueue.pop(data)) { ... write ... }
log_batch ==
    /\ logPc = "batch"
    /\ popStores
    /\ UNCHANGED call
    /\ IF PopEmpty(m_head, m_tail)
       THEN /\ logPc' = "loop"
            /\ UNCHANGED <<file, m_headersWritten>>
       ELSE IF ~fileOpen
            THEN /\ logPc' = "loop"
                 /\ UNCHANGED <<file, m_headersWritten>>
            ELSE /\ WriteRow(RowHeld(popItem'))
                 /\ logPc' = "batch"
    /\ UNCHANGED <<loggerKind, fileOpen, log_running, log_ready, rowOf>>
    /\ UNCHANGED <<idleVars, emaVars, pipeVars>>

\* logThreadFunction: process remaining data before shutdown
log_drain ==
    /\ logPc = "drain"
    /\ popStores
    /\ UNCHANGED call
    /\ IF PopEmpty(m_head, m_tail)
       THEN /\ logPc' = "done"
            /\ UNCHANGED <<file, m_headersWritten>>
       ELSE /\ IF fileOpen
               THEN WriteRow(RowHeld(popItem'))
               ELSE UNCHANGED <<file, m_headersWritten>>
            /\ logPc' = "drain"
    /\ UNCHANGED <<loggerKind, fileOpen, log_running, log_ready, rowOf>>
    /\ UNCHANGED <<idleVars, emaVars, pipeVars>>

(***************************************************************************)
(* A logger that stands alone: loggers are constructed on the same file    *)
(* one after the other, each is handed records and closed.  CSVLogger is   *)
(* called by several threads, statement by statement under m_mutex;        *)
(* AsyncCSVLogger by its one producer.                                     *)
(***************************************************************************)
\* the record handed to the n-th logTickerData call
RecordOf(n) == [NoData EXCEPT !.id = n]

\* std::lock_guard<std::mutex> lock(m_mutex) can be taken
MutexFree == \A t \in LogCallers : lg.pc[t] = "idle"

lgFrame == UNCHANGED <<spscVars, upd, lifeCall, csv, obs, moreVars, emaVars, pipeVars>>

\* CSVLogger::CSVLogger / AsyncCSVLogger::AsyncCSVLogger on the same file:
\* m_headersWritten is false in every new logger; the file is opened in
\* append mode and keeps what it holds
lg_open ==
    /\ lg.state \in {"none", "closed"}
    /\ lg.sessions < MaxSessions
    /\ m_headersWritten' = FALSE
    /\ \E opened \in BOOLEAN :
         /\ fileOpen' = opened
         /\ IF loggerKind = "async" /\ opened
            THEN /\ log_running' = TRUE
                 /\ log_ready' = FALSE
                 /\ logPc' = "start"
                 /\ m_head' = 0
                 /\ m_tail' = 0
                 /\ m_buffer' = [i \in 0..(Size - 1) |-> Blank]
                 /\ UNCHANGED <<Size, pushed, popped, call, popItem>>
            ELSE /\ log_running' = FALSE
                 /\ log_ready' = FALSE
                 /\ UNCHANGED <<logPc, ringVars>>
    /\ lg' = [lg EXCEPT !.state = "open", !.sessions = @ + 1]
    /\ UNCHANGED <<loggerKind, file, rowOf>>
    /\ lgFrame

\* CSVLogger::logTickerData: std::lock_guard<std::mutex> lock(m_mutex);
lg_lock(t) ==
    /\ loggerKind = "sync"
    /\ lg.state \in {"open", "closed"}
    /\ lg.pc[t] = "idle"
    /\ MutexFree
    /\ lg.calls < MaxFrames
    /\ lg' = [lg EXCEPT !.pc[t] = "check", !.data[t] = lg.calls + 1,
                        !.calls = @ + 1]
    /\ UNCHANGED <<ringVars, logVars>>
    /\ lgFrame

\* CSVLogger::logTickerData: if (!m_file || !m_file->is_open()) return;
\* if (!m_headersWritten) writeHeaders();
lg_check(t) ==
    /\ lg.pc[t] = "check"
    /\ IF ~fileOpen
       THEN /\ lg' = [lg EXCEPT !.pc[t] = "idle", !.done = @ + 1]
            /\ UNCHANGED <<file, m_headersWritten>>
       ELSE /\ lg' = [lg EXCEPT !.pc[t] = "row"]
            /\ IF m_headersWritten
               THEN UNCHANGED <<file, m_headersWritten>>
               ELSE /\ file' = Append(file, HeaderRow)
                    /\ m_headersWritten' = TRUE
    /\ UNCHANGED <<loggerKind, fileOpen, log_running, log_ready, logPc, rowOf>>
    /\ UNCHANGED ringVars
    /\ lgFrame

\* CSVLogger::logTickerData: *m_file << data.toCSV() << std::endl; (unlock)
lg_row(t) ==
    /\ lg.pc[t] = "row"
    /\ file' = Append(file, RecordOf(lg.data[t]))
    /\ lg' = [lg EXCEPT !.pc[t] = "idle", !.done = @ + 1]
    /\ UNCHANGED <<loggerKind, fileOpen, m_headersWritten, log_running, log_ready,
                   logPc, rowOf>>
    /\ UNCHANGED ringVars
    /\ lgFrame

\* void CSVLogger::close(): under m_mutex, flush and close the file
lg_close ==
    /\ loggerKind = "sync"
    /\ lg.state = "open"
    /\ MutexFree
    /\ fileOpen' = FALSE
    /\ lg' = [lg EXCEPT !.state = "closed"]
    /\ UNCHANGED <<loggerKind, m_headersWritten, file, log_running, log_ready,
                   logPc, rowOf>>
    /\ UNCHANGED ringVars
    /\ lgFrame

\* bool AsyncCSVLogger::logTickerData(const TickerData& data), one producer
lg_asyncLog ==
    /\ loggerKind = "async"
    /\ lg.state = "open"
    /\ lg.calls < MaxFrames
    /\ asyncLogTickerData(RecordOf(lg.calls + 1))
    /\ lg' = [lg EXCEPT !.calls = @ + 1, !.done = @ + 1]
    /\ lgFrame

\* void AsyncCSVLogger::close(): m_running true -> false, or return at once
lg_asyncClose ==
    /\ loggerKind = "async"
    /\ lg.state = "open"
    /\ log_running' = FALSE
    /\ lg' = [lg EXCEPT !.state = IF log_running THEN "closing" ELSE "closed"]
    /\ UNCHANGED <<loggerKind, fileOpen, m_headersWritten, file, log_ready,
                   logPc, rowOf>>
    /\ UNCHANGED ringVars
    /\ lgFrame

\* void AsyncCSVLogger::close(): m_logThread.join(); m_file.close();
lg_asyncJoined ==
    /\ lg.state = "closing"
    /\ logPc = "done"
    /\ fileOpen' = FALSE
    /\ lg' = [lg EXCEPT !.state = "closed"]
    /\ UNCHANGED <<loggerKind, m_headersWritten, file, log_running, log_ready,
                   logPc, rowOf>>
    /\ UNCHANGED ringVars
    /\ lgFrame

\* bool AsyncCSVLogger::logTickerData(const TickerData& data), called while
\* close() is waiting for the logging thread or after close() has returned:
\* m_ready is still true, the record is pushed
lg_asyncLogClosing ==
    /\ loggerKind = "async"
    /\ lg.state \in {"closing", "closed"}
    /\ lg.calls < MaxFrames
    /\ asyncLogTickerData(RecordOf(lg.calls + 1))
    /\ lg' = [lg EXCEPT !.calls = @ + 1, !.done = @ + 1]
    /\ lgFrame

(***************************************************************************)
(* Rows of the file as text                                                *)
(*   src/src/TickerData.cpp, src/src/CSVLogger.cpp,                        *)
(*   src/src/AsyncCSVLogger.cpp                                            *)
(* A text is a sequence of characters; a run of characters that are        *)
(* neither comma, double-quote nor newline is written as one character.    *)
(***************************************************************************)
Comma   == ","
Quote   == "\""
Newline == "\n"
Chars   == {"a", Comma, Quote, Newline}
Strings == UNION {[1..k -> Chars] : k \in 0..MaxStrLen}

\* the std::string members of TickerData, in declaration order
TransportFields ==
    <<"type", "sequence", "product_id", "price", "open_24h", "volume_24h",
      "low_24h", "high_24h", "volume_30d", "best_bid", "best_ask", "side",
      "time", "trade_id", "last_size">>

\* the records formatted: product_id and side hold any text, the other
\* transport fields a plain one
CsvRecords ==
    {[i \in 1..Len(TransportFields) |->
        IF TransportFields[i] = "product_id" THEN p
        ELSE IF TransportFields[i] = "side" THEN sd
        ELSE <<"a">>] : p \in Strings, sd \in Strings}

\* field.find(',') != npos || field.find('"') != npos || field.find('\n') != npos
NeedsEscaping(field) ==
    \E i \in 1..Len(field) : field[i] \in {Comma, Quote, Newline}

\* for (char c : field) escaped += (c == '"') ? "\"\"" : c
RECURSIVE DoubleQuotes(_)
DoubleQuotes(field) ==
    IF field = <<>> THEN <<>>
    ELSE (IF Head(field) = Quote THEN <<Quote, Quote>> ELSE <<Head(field)>>)
         \o DoubleQuotes(Tail(field))

\* the lambda escapeField of TickerData::toCSV
escapeField(field) ==
    IF NeedsEscaping(field)
    THEN <<Quote>> \o DoubleQuotes(field) \o <<Quote>>
    ELSE field

\* the lambda escape of AsyncCSVLogger::formatToCSV: "would need escaping -
\* for now return as-is"
escape(field) ==
    IF ~NeedsEscaping(field) THEN field ELSE field

\* operator<< of a double under std::fixed and precision 8: the digits of
\* the integer part, the point, the eight fractional digits
FixedText(r) == <<ToString(Fixed8(r)[1]), ".", ToString(Fixed8(r)[2])>>

\* oss << cell << "," << cell ... : the cells joined by commas
RECURSIVE Join(_)
Join(cells) ==
    IF Len(cells) = 0 THEN <<>>
    ELSE IF Len(cells) = 1 THEN cells[1]
    ELSE cells[1] \o <<Comma>> \o Join(Tail(cells))

\* std::string TickerData::toCSV() const: the cells it streams
toCSV(data) ==
    [i \in 1..Len(TransportFields) |-> escapeField(data[i])]
    \o <<FixedText(R(100)), FixedText(R(150)), FixedText(R(150))>>

\* HighResTimer::nowMicros() as formatToCSV prints it
nowMicros == <<"1700000000000000">>

\* std::string AsyncCSVLogger::formatToCSV(data) const: the cells it streams
formatToCSV(data) ==
    [i \in 1..Len(TransportFields) |-> escape(data[i])]
    \o <<FixedText(R(100)), FixedText(R(150)), FixedText(R(150)), nowMicros>>

\* the text CSVLogger::writeHeaders streams
CSVLogger_header ==
    Join([i \in 1..Len(TransportFields) |-> <<TransportFields[i]>>]
         \o << <<"price_ema">>, <<"mid_price_ema">>, <<"mid_price">> >>)

\* the text AsyncCSVLogger::writeHeaders streams
AsyncCSVLogger_header ==
    Join([i \in 1..Len(TransportFields) |-> <<TransportFields[i]>>]
         \o << <<"price_ema">>, <<"mid_price_ema">>, <<"mid_price">>,
               <<"timestamp_us">> >>)

csvFrame == UNCHANGED <<ringVars, spscVars, emaVars, pipeVars, logVars, upd, lifeCall, lg, obs, moreVars>>

\* CSVLogger::logTickerData: *m_file << data.toCSV()
csv_toCSV ==
    /\ csv.pc = "input"
    /\ csv' = [csv EXCEPT !.pc = "row", !.by = "toCSV",
                          !.cells = toCSV(csv.data),
                          !.row = Join(toCSV(csv.data))]
    /\ csvFrame

\* AsyncCSVLogger::logThreadFunction: m_file << formatToCSV(data)
csv_formatToCSV ==
    /\ csv.pc = "input"
    /\ csv' = [csv EXCEPT !.pc = "row", !.by = "formatToCSV",
                          !.cells = formatToCSV(csv.data),
                          !.row = Join(formatToCSV(csv.data))]
    /\ csvFrame

\* CSVLogger::writeHeaders
csv_writeHeaders ==
    /\ csv.pc = "input"
    /\ csv' = [csv EXCEPT !.pc = "header", !.by = "CSVLogger",
                          !.row = CSVLogger_header]
    /\ csvFrame

\* AsyncCSVLogger::writeHeaders
csv_asyncWriteHeaders ==
    /\ csv.pc = "input"
    /\ csv' = [csv EXCEPT !.pc = "header", !.by = "AsyncCSVLogger",
                          !.row = AsyncCSVLogger_header]
    /\ csvFrame

InitCsv ==
    /\ Size = 2
    /\ m_buffer = [i \in 0..1 |-> Blank]
    /\ RingIdle
    /\ SpscIdle
    /\ EmaIdle
    /\ PipeIdle
    /\ loggerKind = "sync"
    /\ LogIdle
    /\ upd = NoUpd
    /\ lifeCall = NoLifeCall
    /\ lg = NoLg
    /\ obs = NoObs
    /\ MoreIdle
    /\ csv \in {[NoCsv EXCEPT !.pc = "input", !.data = r] : r \in CsvRecords}

NextCsv ==
    \/ csv_toCSV
    \/ csv_formatToCSV
    \/ csv_writeHeaders
    \/ csv_asyncWriteHeaders

SpecCsv == InitCsv /\ [][NextCsv]_vars

\* a reader of the file: the commas of a row that separate fields are those
\* outside double-quotes
RECURSIVE SeparatingCommas(_, _)
SeparatingCommas(row, quoted) ==
    IF row = <<>> THEN 0
    ELSE IF Head(row) = Quote THEN SeparatingCommas(Tail(row), ~quoted)
    ELSE (IF Head(row) = Comma /\ ~quoted THEN 1 ELSE 0)
         + SeparatingCommas(Tail(row), quoted)

(***************************************************************************)
(* CoinbaseTickerAnalyzer: ingress callback and processing thread          *)
(***************************************************************************)
\* m_queueCondition.notify_one() / notify_all(): a thread blocked in wait()
\* wakes up and will test the predicate again; otherwise nothing happens
Notified(pc) == IF pc = "blocked" THEN "wait" ELSE pc

\* m_dataQueue.push(tickerData)
QueuePush_front(q, x) == <<x>> \o q
QueuePush(q, x) == Append(q, x)

\* m_dataQueue.front()
QueueFront_newest(q) == q[Len(q)]
QueueFront(q) == Head(q)

\* m_dataQueue.pop()
QueuePop_keep(q) == q
QueuePop(q) == Tail(q)

\* the process is gone: no thread takes another step, no frame arrives
Aborted ==
    /\ mainPc' = "aborted"
    /\ procPc' = "aborted"
    /\ logPc' = (IF logPc = "none" THEN "none" ELSE "aborted")
    /\ wsConnected' = FALSE

\* void handleWebSocketMessage(const std::string& message), on any frame
\* (the push is made under m_queueMutex, then notify_one() wakes the
\* processing thread if it is blocked in wait())
ingress(frame) ==
    /\ wsConnected
    /\ framesIn < MaxFrames
    /\ framesIn' = framesIn + 1
    /\ IF parseTickerMessage(frame)
       THEN \E outcome \in TimestampOutcomes(frame) :
              IF outcome = "abort"
              THEN /\ Aborted
                   /\ UNCHANGED <<m_dataQueue, enqueued, fed>>
                   /\ UNCHANGED <<loggerKind, fileOpen, m_headersWritten, file,
                                  log_running, log_ready, rowOf>>
              ELSE LET tickerData == ParsedTicker(frame, Len(enqueued) + 1) IN
                   /\ procPc # "toBlock"   \* lock_guard: m_queueMutex is free
                   /\ m_dataQueue' = QueuePush(m_dataQueue, tickerData)
                   /\ enqueued' = Append(enqueued, tickerData.id)
                   /\ fed' = Append(fed, tickerData)
                   /\ procPc' = Notified(procPc)
                   /\ UNCHANGED <<mainPc, wsConnected, logVars>>
       ELSE UNCHANGED <<m_dataQueue, enqueued, fed, procPc, mainPc, wsConnected, logVars>>
    /\ UNCHANGED <<m_running, m_processingEnabled, procData, shut>>
    /\ UNCHANGED <<ringVars, spscVars, upd, emaVars>>

\* the frames of a run of the pipeline, delivered by the WebSocket thread
handleWebSocketMessage(frame) ==
    /\ ingress(frame)
    /\ UNCHANGED extVars

\* processDataThread: while (m_processingEnabled.load())
proc_outer ==
    /\ procPc = "outer"
    /\ procPc' = IF m_processingEnabled THEN "wait" ELSE "done"
    /\ UNCHANGED <<mainPc, m_running, m_processingEnabled, m_dataQueue, procData,
                   wsConnected, framesIn, enqueued, fed, shut>>
    /\ UNCHANGED <<ringVars, idleVars, emaVars, logVars>>

\* under m_queueMutex: while (!m_dataQueue.empty() && m_processingEnabled.load())
\*   { data = m_dataQueue.front(); m_dataQueue.pop(); lock.unlock(); ... }
takeNext ==
    IF m_dataQueue # <<>> /\ m_processingEnabled
    THEN /\ procData' = QueueFront(m_dataQueue)
         /\ m_dataQueue' = QueuePop(m_dataQueue)
         /\ procPc' = "process"
    ELSE /\ procPc' = "outer"
         /\ procData' = NoData      \* the loop body's local is gone
         /\ UNCHANGED m_dataQueue

\* the predicate of m_queueCondition.wait(lock, predicate)
WaitPredicate == m_dataQueue # <<>> \/ ~m_processingEnabled

\* processDataThread: std::unique_lock lock(m_queueMutex); wait(lock, predicate)
\* tests the predicate under the mutex: if it holds, the loop test follows;
\* if not, the thread is about to block, still holding the mutex
proc_wait ==
    /\ procPc = "wait"
    /\ IF WaitPredicate
       THEN takeNext
       ELSE /\ procPc' = "toBlock"
            /\ UNCHANGED <<procData, m_dataQueue>>
    /\ UNCHANGED <<mainPc, m_running, m_processingEnabled, wsConnected, framesIn, enqueued, fed, shut>>
    /\ UNCHANGED <<ringVars, idleVars, emaVars, logVars>>

\* condition_variable::wait(lock): release the mutex and block, atomically
proc_block ==
    /\ procPc = "toBlock"
    /\ procPc' = "blocked"
    /\ UNCHANGED <<mainPc, m_running, m_processingEnabled, m_dataQueue, procData,
                   wsConnected, framesIn, enqueued, fed, shut>>
    /\ UNCHANGED <<ringVars, idleVars, emaVars, logVars>>

\* condition_variable::wait(lock) may return without a notification
proc_spurious ==
    /\ procPc = "blocked"
    /\ procPc' = "wait"
    /\ UNCHANGED <<mainPc, m_running, m_processingEnabled, m_dataQueue, procData,
                   wsConnected, framesIn, enqueued, fed, shut>>
    /\ UNCHANGED <<ringVars, idleVars, emaVars, logVars>>

\* void processTickerData(TickerData& data)
processTickerData_midFromPrice(data) ==
    IF data.price = BadPrice
    THEN \* std::stod throws; the catch block only prints
         /\ UNCHANGED <<emaVars, logVars, ringVars>>
         /\ procData' = data
    ELSE LET filled == [data EXCEPT
                 !.mid_price = data.price,
                 !.price_ema = priceReturn(R(data.price), data.time),
                 !.mid_price_ema = midPriceReturn(R(data.mid_price), data.time)]
         IN  /\ priceStores(R(data.price), data.time)
             /\ midPriceStores(R(data.mid_price), data.time)
             /\ UNCHANGED <<m_interval, m_alpha, emaCall>>
             /\ procData' = filled
             /\ logTickerData(filled)

processTickerData(data) ==
    IF data.price = BadPrice
    THEN \* std::stod throws; the catch block only prints
         /\ UNCHANGED <<emaVars, logVars, ringVars>>
         /\ procData' = data
    ELSE LET filled == [data EXCEPT
                 !.price_ema = priceReturn(R(data.price), data.time),
                 !.mid_price_ema = midPriceReturn(R(data.mid_price), data.time)]
         IN  /\ priceStores(R(data.price), data.time)
             /\ midPriceStores(R(data.mid_price), data.time)
             /\ UNCHANGED <<m_interval, m_alpha, emaCall>>
             /\ procData' = filled
             /\ logTickerData(filled)

\* processDataThread: processTickerData(data);
proc_process ==
    /\ procPc = "process"
    /\ processTickerData(procData)
    /\ procPc' = "inner"
    /\ UNCHANGED <<mainPc, m_running, m_processingEnabled, m_dataQueue,
                   wsConnected, framesIn, enqueued, fed, shut>>
    /\ UNCHANGED idleVars

\* processDataThread: lock.lock(); and the loop test again
proc_inner ==
    /\ procPc = "inner"
    /\ takeNext
    /\ UNCHANGED <<mainPc, m_running, m_processingEnabled, wsConnected, framesIn, enqueued, fed, shut>>
    /\ UNCHANGED <<ringVars, idleVars, emaVars, logVars>>

(***************************************************************************)
(* CoinbaseTickerAnalyzer: start(), stop() and cleanupComponents()         *)
(***************************************************************************)
mainFrame == UNCHANGED <<m_dataQueue, procData, framesIn, enqueued, fed, shut>>

\* bool CSVLogger::isReady() const / bool AsyncCSVLogger::isReady() const
isReady == IF loggerKind = "sync" THEN fileOpen ELSE log_ready /\ fileOpen

\* initializeComponents(): if (!m_csvLogger->isReady()) return false;
\* start(): if (!initializeComponents()) return false;
AfterInitialize_unchecked(ready) == "initialized"
AfterInitialize(ready) == IF ready THEN "initialized" ELSE "failed"

\* bool initializeComponents(): creates a WebSocket client, the EMA
\* calculator and the logger; the logger's constructor opens the file in
\* append mode (which may fail) and, for AsyncCSVLogger, starts the logging
\* thread
initializeComponents ==
    /\ m_interval' = DefaultInterval
    /\ m_alpha' = calculateAlpha(DefaultInterval)
    /\ m_priceEMA' = R(0)
    /\ m_midPriceEMA' = R(0)
    /\ m_priceInitialized' = FALSE
    /\ m_midPriceInitialized' = FALSE
    /\ m_priceLastUpdate' = 0
    /\ m_midPriceLastUpdate' = 0
    /\ UNCHANGED emaCall
    /\ wsConnected' = FALSE
    /\ m_headersWritten' = FALSE
    /\ \E opened \in BOOLEAN :
         /\ fileOpen' = opened
         /\ IF loggerKind = "sync"
            THEN /\ mainPc' = AfterInitialize(opened)
                 /\ UNCHANGED <<log_running, logPc>>
            ELSE IF opened
                 THEN /\ log_running' = TRUE
                      /\ logPc' = "start"
                      /\ mainPc' = "loggerWait"
                 ELSE /\ mainPc' = AfterInitialize(FALSE)
                      /\ UNCHANGED <<log_running, logPc>>
    /\ UNCHANGED <<loggerKind, file, log_ready, rowOf>>
    /\ UNCHANGED <<m_running, m_processingEnabled, procPc>>
    /\ mainFrame
    /\ UNCHANGED <<ringVars, spscVars, upd>>

\* start(), first call: if (!initializeComponents()) return false;
start_initializeComponents ==
    /\ mainPc = "constructed"
    /\ ~m_running
    /\ initializeComponents
    /\ UNCHANGED extVars

\* AsyncCSVLogger constructor: wait for m_ready, at most one second; then
\* initializeComponents() tests isReady()
start_loggerWait ==
    /\ mainPc = "loggerWait"
    /\ mainPc' = AfterInitialize(isReady)
    /\ UNCHANGED <<m_running, m_processingEnabled, procPc, wsConnected>>
    /\ mainFrame
    /\ UNCHANGED <<ringVars, idleVars, emaVars, logVars>>

\* start(): m_processingEnabled.store(true); start the processing thread
start_spawn ==
    /\ mainPc = "initialized"
    /\ m_processingEnabled' = TRUE
    /\ procPc' = "outer"
    /\ mainPc' = "spawned"
    /\ UNCHANGED <<m_running, wsConnected>>
    /\ mainFrame
    /\ UNCHANGED <<ringVars, idleVars, emaVars, logVars>>

\* start(): the position from which m_websocketClient->connect(uri) is
\* reached: after initializeComponents() and after the thread was started
ConnectFrom_early == "initialized"
ConnectFrom == "spawned"

\* start(): m_websocketClient->connect(uri); on failure cleanupComponents()
start_connect ==
    /\ mainPc = ConnectFrom
    /\ \E ok \in BOOLEAN :
         IF ok
         THEN /\ wsConnected' = TRUE
              /\ mainPc' = "connected"
         ELSE /\ mainPc' = "fail_cleanup"
              /\ UNCHANGED wsConnected
    /\ UNCHANGED <<m_running, m_processingEnabled, procPc>>
    /\ mainFrame
    /\ UNCHANGED <<ringVars, idleVars, emaVars, logVars>>

\* start(): subscribeToTicker(m_productId); then m_running.store(true)
start_subscribe ==
    /\ mainPc = "connected"
    /\ \E ok \in BOOLEAN :
         IF ok
         THEN /\ m_running' = TRUE
              /\ mainPc' = "running"
         ELSE /\ mainPc' = "fail_cleanup"
              /\ UNCHANGED m_running
    /\ UNCHANGED <<m_processingEnabled, procPc, wsConnected>>
    /\ mainFrame
    /\ UNCHANGED <<ringVars, idleVars, emaVars, logVars>>

\* stop() on a running analyzer: m_running.store(false); cleanupComponents()
stopRunning ==
    /\ m_running' = FALSE
    /\ mainPc' = "stop_cleanup"
    /\ shut' = [shut EXCEPT !.enq = Len(enqueued)]
    /\ UNCHANGED <<m_processingEnabled, procPc, wsConnected>>
    /\ UNCHANGED <<m_dataQueue, procData, framesIn, enqueued, fed>>
    /\ UNCHANGED <<ringVars, spscVars, upd, emaVars, logVars>>

\* stop(): if (!m_running.load()) return; m_running.store(false);
stop ==
    /\ mainPc = "running"
    /\ m_running
    /\ stopRunning
    /\ UNCHANGED extVars

\* positions of cleanupComponents(), called by stop() or by a failed start()
Cleanup(who, stage) == who \o "_" \o stage
Callers == {"stop", "fail"}

\* cleanupComponents(): m_processingEnabled.store(false)
\* (an atomic store, made without holding m_queueMutex)
cleanup_disable(who) ==
    /\ mainPc = Cleanup(who, "cleanup")
    /\ m_processingEnabled' = FALSE
    /\ mainPc' = Cleanup(who, "notify")
    /\ UNCHANGED <<m_running, procPc, wsConnected>>
    /\ mainFrame
    /\ UNCHANGED <<ringVars, idleVars, emaVars, logVars>>

\* cleanupComponents(): m_queueCondition.notify_all()
cleanup_notify(who) ==
    /\ mainPc = Cleanup(who, "notify")
    /\ procPc' = Notified(procPc)
    /\ mainPc' = Cleanup(who, "join")
    /\ UNCHANGED <<m_running, m_processingEnabled, wsConnected>>
    /\ mainFrame
    /\ UNCHANGED <<ringVars, idleVars, emaVars, logVars>>

\* cleanupComponents(): m_dataProcessingThread.join()
cleanup_join(who) ==
    /\ mainPc = Cleanup(who, "join")
    /\ procPc = "done"
    /\ mainPc' = Cleanup(who, "disconnect")
    /\ UNCHANGED <<m_running, m_processingEnabled, procPc, wsConnected>>
    /\ mainFrame
    /\ UNCHANGED <<ringVars, idleVars, emaVars, logVars>>

\* cleanupComponents(): m_websocketClient->disconnect()
cleanup_disconnect(who) ==
    /\ mainPc = Cleanup(who, "disconnect")
    /\ wsConnected' = FALSE
    /\ mainPc' = Cleanup(who, "close")
    /\ UNCHANGED <<m_running, m_processingEnabled, procPc>>
    /\ mainFrame
    /\ UNCHANGED <<ringVars, idleVars, emaVars, logVars>>

\* cleanupComponents(): m_csvLogger->close()
\*   CSVLogger::close(): flush and close the file
\*   AsyncCSVLogger::close(): m_running true -> false, then join the thread
cleanup_close(who) ==
    /\ mainPc = Cleanup(who, "close")
    /\ IF loggerKind = "sync"
       THEN /\ fileOpen' = FALSE
            /\ mainPc' = Cleanup(who, "done")
            /\ UNCHANGED log_running
       ELSE IF log_running
            THEN /\ log_running' = FALSE
                 /\ mainPc' = Cleanup(who, "logjoin")
                 /\ UNCHANGED fileOpen
            ELSE /\ mainPc' = Cleanup(who, "done")
                 /\ UNCHANGED <<fileOpen, log_running>>
    /\ shut' = [shut EXCEPT !.pend = size]
    /\ UNCHANGED <<loggerKind, m_headersWritten, file, log_ready, logPc, rowOf>>
    /\ UNCHANGED <<m_running, m_processingEnabled, procPc, wsConnected>>
    /\ UNCHANGED <<m_dataQueue, procData, framesIn, enqueued, fed>>
    /\ UNCHANGED <<ringVars, idleVars, emaVars>>

\* AsyncCSVLogger::close(): m_logThread.join(); m_file.flush(); m_file.close()
cleanup_logjoin(who) ==
    /\ mainPc = Cleanup(who, "logjoin")
    /\ logPc = "done"
    /\ fileOpen' = FALSE
    /\ mainPc' = Cleanup(who, "done")
    /\ UNCHANGED <<loggerKind, m_headersWritten, file, log_running, log_ready, logPc, rowOf>>
    /\ UNCHANGED <<m_running, m_processingEnabled, procPc, wsConnected>>
    /\ mainFrame
    /\ UNCHANGED <<ringVars, idleVars, emaVars>>

\* LockFreeRingBuffer<TickerData, LOG_BUFFER_SIZE> m_logQueue: a queue that
\* holds one pending record and a queue that holds three; only
\* AsyncCSVLogger has an m_logQueue
LogQueueSizes == {Pow2(1), Pow2(2)}

InitPipe ==
    /\ loggerKind \in {"sync", "async"}
    /\ Size \in (IF loggerKind = "async" THEN LogQueueSizes ELSE {1})
    /\ m_buffer = [i \in 0..(Size - 1) |-> Blank]
    /\ RingIdle
    /\ SpscIdle
    /\ EmaIdle
    /\ PipeIdle
    /\ LogIdle
    /\ StepIdle

NextPipe ==
    \/ start_initializeComponents
    \/ start_loggerWait
    \/ start_spawn
    \/ start_connect
    \/ start_subscribe
    \/ stop
    \/ \E who \in Callers : cleanup_disable(who)
    \/ \E who \in Callers : cleanup_notify(who)
    \/ \E who \in Callers : cleanup_join(who)
    \/ \E who \in Callers : cleanup_disconnect(who)
    \/ \E who \in Callers : cleanup_close(who)
    \/ \E who \in Callers : cleanup_logjoin(who)
    \/ \E frame \in Frames : handleWebSocketMessage(frame)
    \/ proc_outer
    \/ proc_wait
    \/ proc_block
    \/ proc_spurious
    \/ proc_process
    \/ proc_inner
    \/ log_start
    \/ log_loop
    \/ log_batch
    \/ log_drain

SpecPipe == InitPipe /\ [][NextPipe]_vars

\* the analyzer with its CSVLogger, fed every kind of frame
NextIngress ==
    \/ start_initializeComponents
    \/ start_spawn
    \/ start_connect
    \/ start_subscribe
    \/ stop
    \/ \E who \in Callers : cleanup_disable(who)
    \/ \E who \in Callers : cleanup_notify(who)
    \/ \E who \in Callers : cleanup_join(who)
    \/ \E who \in Callers : cleanup_disconnect(who)
    \/ \E who \in Callers : cleanup_close(who)
    \/ \E frame \in AllFrames : handleWebSocketMessage(frame)
    \/ proc_outer
    \/ proc_wait
    \/ proc_block
    \/ proc_spurious
    \/ proc_process
    \/ proc_inner

InitIngress ==
    /\ InitPipe
    /\ loggerKind = "sync"

SpecIngress == InitIngress /\ [][NextIngress]_vars

(***************************************************************************)
(* Scheduling: a thread that can take its next step eventually takes it.   *)
(* Nothing obliges the feed to deliver another frame, wait() to wake up    *)
(* without a notification, or the user to call stop().                     *)
(***************************************************************************)
ProcessingThread == proc_outer \/ proc_wait \/ proc_block \/ proc_process \/ proc_inner

LoggingThread == log_start \/ log_loop \/ log_batch \/ log_drain

CleanupSteps ==
    \E who \in Callers :
        \/ cleanup_disable(who) \/ cleanup_notify(who) \/ cleanup_join(who)
        \/ cleanup_disconnect(who) \/ cleanup_close(who) \/ cleanup_logjoin(who)

SpecPipeFair ==
    /\ SpecPipe
    /\ WF_vars(ProcessingThread)
    /\ WF_vars(LoggingThread)
    /\ WF_vars(CleanupSteps)

(***************************************************************************)
(* One thread calling start() and stop() again and again, as the source    *)
(* builds the analyzer: with a CSVLogger.  Between two calls the calling   *)
(* thread is at one of the Callable positions.                             *)
(***************************************************************************)
Callable == {"constructed", "failed", "running", "stop_done", "fail_done"}

\* start(): if (m_running.load()) { ...; return true; }
AlreadyRunning_never == FALSE
AlreadyRunning == m_running

\* stop(): if (!m_running.load()) return;
NotRunning_never == FALSE
NotRunning == ~m_running

\* bool start(), called at any moment between two calls
life_start ==
    /\ mainPc \in Callable
    /\ lifeCall.n < MaxCalls
    /\ UNCHANGED <<lg, csv, obs, moreVars>>
    /\ IF AlreadyRunning
       THEN /\ lifeCall' = [op |-> "start", n |-> lifeCall.n + 1, ret |-> "true"]
            /\ UNCHANGED <<ringVars, spscVars, emaVars, pipeVars, logVars, upd>>
       ELSE /\ initializeComponents
            /\ lifeCall' = [op |-> "start", n |-> lifeCall.n + 1, ret |-> "pending"]

\* void stop(), called at any moment between two calls
life_stop ==
    /\ mainPc \in Callable
    /\ lifeCall.n < MaxCalls
    /\ UNCHANGED <<lg, csv, obs, moreVars>>
    /\ IF NotRunning
       THEN /\ lifeCall' = [op |-> "stop", n |-> lifeCall.n + 1, ret |-> "none"]
            /\ UNCHANGED <<ringVars, spscVars, emaVars, pipeVars, logVars, upd>>
       ELSE /\ stopRunning
            /\ lifeCall' = [op |-> "stop", n |-> lifeCall.n + 1, ret |-> "pending"]

InitLife ==
    /\ InitPipe
    /\ loggerKind = "sync"

NextLife ==
    \/ life_start
    \/ life_stop
    \/ start_spawn
    \/ start_connect
    \/ start_subscribe
    \/ \E who \in Callers : cleanup_disable(who)
    \/ \E who \in Callers : cleanup_notify(who)
    \/ \E who \in Callers : cleanup_join(who)
    \/ \E who \in Callers : cleanup_disconnect(who)
    \/ \E who \in Callers : cleanup_close(who)
    \/ \E frame \in Frames : handleWebSocketMessage(frame)
    \/ proc_outer
    \/ proc_wait
    \/ proc_block
    \/ proc_spurious
    \/ proc_process
    \/ proc_inner

SpecLife == InitLife /\ [][NextLife]_vars

\* the positions of start() at which the calling thread can be interrupted
\* by a signal: after initializeComponents(), after the processing thread
\* was started, during the wait that follows connect()
InStart == {"initialized", "spawned", "connected"}

\* signalHandler(int signal): g_analyzer->stop(), run on the thread that is
\* inside start() or that waits in main()'s loop
signalHandler ==
    /\ mainPc \in InStart \cup {"running"}
    /\ lifeCall.op # "stop"
    /\ lifeCall.n < MaxCalls
    /\ UNCHANGED <<lg, csv, obs, moreVars>>
    /\ IF NotRunning
       THEN /\ lifeCall' = [op |-> "stop", n |-> lifeCall.n + 1, ret |-> "none"]
            /\ UNCHANGED <<ringVars, spscVars, emaVars, pipeVars, logVars, upd>>
       ELSE /\ stopRunning
            /\ lifeCall' = [op |-> "stop", n |-> lifeCall.n + 1, ret |-> "pending"]

\* main(): g_analyzer->start() once, with the signal handler installed
main_start ==
    /\ mainPc = "constructed"
    /\ lifeCall.op = "none"
    /\ life_start

NextSignal ==
    \/ main_start
    \/ signalHandler
    \/ start_spawn
    \/ start_connect
    \/ start_subscribe
    \/ \E who \in Callers : cleanup_disable(who)
    \/ \E who \in Callers : cleanup_notify(who)
    \/ \E who \in Callers : cleanup_join(who)
    \/ \E who \in Callers : cleanup_disconnect(who)
    \/ \E who \in Callers : cleanup_close(who)
    \/ \E frame \in Frames : handleWebSocketMessage(frame)
    \/ proc_outer
    \/ proc_wait
    \/ proc_block
    \/ proc_spurious
    \/ proc_process
    \/ proc_inner

SpecSignal == InitLife /\ [][NextSignal]_vars

\* loggers on one file, with their callers and the logging thread
NextLog ==
    \/ lg_open
    \/ \E t \in LogCallers : lg_lock(t)
    \/ \E t \in LogCallers : lg_check(t)
    \/ \E t \in LogCallers : lg_row(t)
    \/ lg_close
    \/ lg_asyncLog
    \/ lg_asyncClose
    \/ lg_asyncJoined
    \/ log_start
    \/ log_loop
    \/ log_batch
    \/ log_drain

SpecLog == InitPipe /\ [][NextLog]_vars

\* the same, with calls of logTickerData that race with or follow close()
NextLogClosing ==
    \/ NextLog
    \/ lg_asyncLogClosing

SpecLogClosing == InitPipe /\ [][NextLogClosing]_vars

(***************************************************************************)
(* Pipeline properties                                                     *)
(***************************************************************************)
FileIds == [i \in 1..Len(DataRows(file)) |-> DataRows(file)[i].id]

\* C6: records reach the file in the order in which ingress enqueued them:
\* if record A was enqueued before record B (A has the smaller ingress rank)
\* and both have rows in the file, every row of A precedes every row of B,
\* under every interleaving of ingress, processing, logging and shutdown.
C6_PipelineOrder ==
    LET ids == FileIds
    IN  \A i, j \in 1..Len(ids) : ids[i] < ids[j] => i < j

\* C6 witness: with the asynchronous logger, the first and the third record
\* enqueued are in the file, in that order, while the second one was dropped.
C6_Witness ==
    /\ loggerKind = "async"
    /\ Len(enqueued) >= 3
    /\ Len(FileIds) >= 2
    /\ FileIds[1] = 1
    /\ FileIds[2] = 3

\* C7: delivery is at most once: every data row in the file belongs to a
\* record that ingress enqueued, and no record has more than one row.
C7_AtMostOnce ==
    LET ids == FileIds
    IN  /\ \A i \in 1..Len(ids) : ids[i] \in 1..Len(enqueued)
        /\ \A i, j \in 1..Len(ids) : ids[i] = ids[j] => i = j

\* C7 witness: after a complete stop, two or more records had been enqueued,
\* exactly one of them has a row in the file and the others were dropped.
C7_Witness ==
    /\ mainPc = "stop_done"
    /\ Len(enqueued) >= 2
    /\ Len(FileIds) = 1
    /\ file[1] = HeaderRow

(***************************************************************************)
(* Replay: the EMA values computed by one thread that is handed the        *)
(* records one after the other, with no clock and no other thread          *)
(***************************************************************************)
\* the EMACalculator made by initializeComponents(), as a value
FreshEma == [pInit |-> FALSE, pEMA |-> R(0), pLast |-> 0,
             mInit |-> FALSE, mEMA |-> R(0), mLast |-> 0]

\* shouldUpdatePrice / shouldUpdateMidPrice on such a value
GateOpen(init, last, t) == ~init \/ t - last >= DefaultInterval

\* the value stored by updatePriceEMA / updateMidPriceEMA on such a value
Blend(init, sample, ema) ==
    LET alpha == calculateAlpha(DefaultInterval)
    IN  IF ~init THEN sample
        ELSE RAdd(RMul(alpha, sample), RMul(RSub(R(1), alpha), ema))

\* processTickerData on such a value: a price that std::stod rejects leaves
\* both EMAs alone
ReplayOne(st, rec) ==
    IF rec.price = BadPrice THEN st
    ELSE LET pGo == GateOpen(st.pInit, st.pLast, rec.time)
             mGo == GateOpen(st.mInit, st.mLast, rec.time)
         IN  [pInit |-> st.pInit \/ pGo,
              pEMA  |-> IF pGo THEN Blend(st.pInit, R(rec.price), st.pEMA) ELSE st.pEMA,
              pLast |-> IF pGo THEN rec.time ELSE st.pLast,
              mInit |-> st.mInit \/ mGo,
              mEMA  |-> IF mGo THEN Blend(st.mInit, R(rec.mid_price), st.mEMA) ELSE st.mEMA,
              mLast |-> IF mGo THEN rec.time ELSE st.mLast]

RECURSIVE Replay(_, _)
Replay(records, k) ==
    IF k = 0 THEN FreshEma ELSE ReplayOne(Replay(records, k - 1), records[k])

\* the EMA fields the replay assigns to the k-th record
ReplayAgrees(row) ==
    /\ row.id \in 1..Len(fed)
    /\ LET st == Replay(fed, row.id)
       IN  /\ row.price_ema = st.pEMA
           /\ row.mid_price_ema = st.mEMA

\* C13: the price_ema and mid_price_ema that the processing thread assigns
\* to a record are a function of the sequence of (price, mid_price, event
\* time) records enqueued up to it, and of nothing else: whatever the
\* interleaving of the threads, the logger used and the moment of shutdown,
\* every row written (and the record just processed) carries the values a
\* sequential replay of that sequence computes.
C13_ReplayDeterminism ==
    /\ \A i \in 1..Len(file) : file[i] # HeaderRow => ReplayAgrees(file[i])
    /\ (procPc = "inner" /\ procData.price # BadPrice) => ReplayAgrees(procData)

\* C13 witness: with the asynchronous logger, the second of three records
\* had an unparsable price; the rows of the first and the third are in the
\* file and the third carries the smoothed value 400/3.
C13_Witness ==
    /\ loggerKind = "async"
    /\ Len(fed) = 3
    /\ fed[2].price = BadPrice
    /\ FileIds = <<1, 3>>
    /\ file[3].price_ema = <<400, 3>>
    /\ file[3].mid_price_ema = R(150)

\* C14: the ingress hand-off is a bounded ring with a drop-newest policy: a
\* record arriving while the hand-off is full is refused and the queued ones
\* are kept, so the hand-off never holds more than N - 1 records.  N is left
\* open by the claim; it is taken here at the smallest ring, N = 2 (one
\* usable slot): with the processing thread stalled, a second record is
\* never queued behind a pending one.
C14_IngressDropNewest == Len(m_dataQueue) <= Pow2(1) - 1

\* C15: the persistence queue has a drop-oldest overrun policy: whenever the
\* processing thread hands a record to a ready AsyncCSVLogger whose queue has
\* at least one usable slot, the record is admitted (when the queue is full,
\* by evicting the oldest pending record), so right after the call the
\* newest pending record of the queue is that record.
C15_DropOldest ==
    [][ ( /\ loggerKind = "async" /\ Size > 1 /\ log_ready
          /\ procPc = "process" /\ procPc' = "inner"
          /\ procData.price # BadPrice ) =>
            /\ m_head' # m_tail'
            /\ m_buffer'[(m_tail' + Size - 1) % Size] = procData.id ]_vars

\* C16: the processing thread drains its queue before it exits on shutdown:
\* once stop() has returned, no record that ingress had enqueued before
\* stop() was called is still pending in m_dataQueue (each of them was
\* taken, EMA-processed and handed to the logger).
C16_DrainOnShutdown ==
    mainPc = "stop_done" =>
        \A i \in 1..Len(m_dataQueue) : m_dataQueue[i].id > shut.enq

\* C17: when AsyncCSVLogger::close() has returned, the logging thread has
\* ended with an empty queue, the file is closed, and every record whose
\* logTickerData call returned true (every accepted push) has its row in
\* the file.
C17_CloseDrains ==
    \A who \in Callers :
        (loggerKind = "async" /\ mainPc = Cleanup(who, "done")) =>
            /\ logPc = "done"
            /\ ~fileOpen
            /\ m_head = m_tail
            /\ \A k \in 1..Len(pushed) :
                  \E i \in 1..Len(FileIds) : FileIds[i] = pushed[k]

\* C17 witness: close() was called while two accepted records were still
\* pending in the queue; it has returned and both rows are in the file.
C17_Witness ==
    /\ loggerKind = "async"
    /\ mainPc = "stop_done"
    /\ shut.pend >= 2
    /\ Len(pushed) >= 2
    /\ Len(FileIds) = Len(pushed)
    /\ ~fileOpen

\* C18: shutdown always completes: once stop() has been called on a running
\* analyzer, the processing thread eventually sees the cleared flag, leaves
\* its wait and its loop and is joined, and stop() returns, under every
\* fair interleaving and even if no further frame arrives.
C18_StopReturns == (mainPc = "stop_cleanup") ~> (mainPc = "stop_done")

\* C19: if the output file cannot be opened, the logger is not ready and
\* start() returns false at once: the processing thread is never started,
\* the transport is neither connected nor subscribed (no frame is ever
\* delivered), isRunning() stays false, and nothing happens afterwards.
C19_OpenFailureAbortsStart ==
    /\ [](mainPc = "failed" =>
            /\ procPc = "none"
            /\ ~m_processingEnabled
            /\ ~wsConnected
            /\ framesIn = 0
            /\ ~m_running)
    /\ [][ /\ (mainPc = "constructed" /\ mainPc' # mainPc /\ ~fileOpen') =>
                (~isReady' /\ mainPc' = "failed")
           /\ mainPc = "failed" => mainPc' = "failed" ]_vars

\* C19 witness: the file could not be opened and start() has returned false
\* with no thread started and no connection made.
C19_Witness ==
    /\ mainPc = "failed"
    /\ ~fileOpen
    /\ ~isReady
    /\ procPc = "none"
    /\ ~wsConnected
    /\ ~m_running

\* C20: start() connects the transport only after the logger was found
\* ready and the processing thread was started: while the transport is
\* connected the logger is ready and the processing thread has been
\* created, and no frame has been delivered to handleWebSocketMessage in
\* any state where start() has not yet passed those two steps.
C20_ReadyBeforeFrames ==
    /\ wsConnected => (isReady /\ procPc # "none")
    /\ framesIn > 0 =>
          /\ procPc # "none"
          /\ mainPc \notin {"constructed", "loggerWait", "initialized", "failed"}

\* C20 witness: a frame was delivered while start() was still between
\* connect and subscribe; the asynchronous logger is ready and the
\* processing thread exists.
C20_Witness ==
    /\ mainPc = "connected"
    /\ framesIn >= 1
    /\ loggerKind = "async"
    /\ isReady
    /\ procPc # "none"

\* the state of the analyzer and of everything it owns
analyzerState == <<ringVars, emaVars, pipeVars, logVars>>

\* C21: for any sequence of start() and stop() calls made by one thread:
\* start() on a running analyzer returns true and changes nothing (no new
\* component, no second processing thread); stop() on an analyzer that is not
\* running changes nothing; after a failed start() isRunning() is false;
\* after stop() has returned isRunning() is false and the processing thread
\* has ended.
C21_StartStopContract ==
    /\ [](mainPc \in {"failed", "fail_done"} => ~m_running)
    /\ [](mainPc = "stop_done" => (~m_running /\ procPc = "done"))
    /\ []((mainPc \in Callable /\ ~m_running) => procPc \in {"none", "done"})
    /\ [][ (lifeCall' # lifeCall /\ lifeCall'.op = "start" /\ m_running) =>
             (lifeCall'.ret = "true" /\ analyzerState' = analyzerState) ]_vars
    /\ [][ (lifeCall' # lifeCall /\ lifeCall'.op = "stop" /\ ~m_running) =>
             analyzerState' = analyzerState ]_vars

\* C21 witness: the analyzer was started, stopped (a record had been
\* enqueued by then) and started again, it is running for the second time,
\* and start() has just been called on it once more and returned true.
C21_Witness ==
    /\ mainPc = "running"
    /\ m_running
    /\ shut.enq >= 1
    /\ procPc # "done"
    /\ lifeCall = [op |-> "start", n |-> 4, ret |-> "true"]

\* C22: across any sequence of open / log / close sessions on the same
\* file, the file holds at most one header row and a header row is its first
\* line: a logger opened on a file that already has rows writes no second
\* header.
C22_SingleHeader ==
    /\ Len(file) > 0 => file[1] = HeaderRow
    /\ \A i \in 1..Len(file) : file[i] = HeaderRow => i = 1

\* C23: for the first logger opened on the empty file, whenever k
\* logTickerData calls have returned and none is in progress (the callers of
\* CSVLogger run concurrently), the file has k + 1 lines: the header first
\* and once, then one data row per call.
C23_HeaderThenRows ==
    (/\ lg.sessions = 1
     /\ lg.state = "open"
     /\ fileOpen
     /\ MutexFree)
    => /\ Len(file) = lg.done + 1
       /\ file[1] = HeaderRow
       /\ \A i \in 2..Len(file) : file[i] # HeaderRow

\* C24: when the processing thread handles a record whose price is not a
\* number, the price EMA state is left alone, the record is still handed to
\* the logger (CSVLogger with an open file: its row is appended to the file;
\* AsyncCSVLogger that is ready and not full: it is accepted by the queue),
\* and the processing thread goes on with its loop.
C24_BadPriceStillLogged ==
    [][ (procPc = "process" /\ procPc' # procPc /\ procData.price = BadPrice) =>
          /\ UNCHANGED <<m_priceEMA, m_priceInitialized, m_priceLastUpdate>>
          /\ procPc' = "inner"
          /\ (loggerKind = "sync" /\ fileOpen) =>
                (Len(file') = Len(file) + 1 + (IF m_headersWritten THEN 0 ELSE 1)
                 /\ file'[Len(file')].id = procData.id)
          /\ (loggerKind = "async" /\ log_ready /\ ~PushFull(m_tail, m_head)) =>
                pushed' = Append(pushed, procData.id) ]_vars

C26_FieldsEscaped ==
    csv.pc = "row" =>
        \A i \in 1..Len(TransportFields) :
            LET field == csv.data[i]
                special == \E k \in 1..Len(field) : field[k] \in {Comma, Quote, Newline}
                cell == csv.cells[i]
            IN  IF special
                THEN /\ Len(cell) >= 2
                     /\ cell[1] = Quote
                     /\ cell[Len(cell)] = Quote
                     /\ LET inner == SubSeq(cell, 2, Len(cell) - 1) IN
                        /\ Len(inner) = Len(field) + Cardinality({k \in 1..Len(field) : field[k] = Quote})
                        /\ SelectSeq(inner, LAMBDA c : c # Quote) = SelectSeq(field, LAMBDA c : c # Quote)
                        /\ \A k \in 1..Len(inner) :
                              inner[k] = Quote =>
                                (k < Len(inner) /\ inner[k + 1] = Quote) \/ (k > 1 /\ inner[k - 1] = Quote)
                ELSE cell = field

\* C27: the header row and every data row have exactly 18 fields, separated
\* by 17 commas, and the header names the columns in the fixed order.
C27_EighteenFields ==
    /\ csv.pc \in {"row", "header"} => SeparatingCommas(csv.row, FALSE) = 17
    /\ csv.pc = "row" => Len(csv.cells) = 18
    /\ csv.pc = "header" =>
          csv.row = <<"type", Comma, "sequence", Comma, "product_id", Comma,
                      "price", Comma, "open_24h", Comma, "volume_24h", Comma,
                      "low_24h", Comma, "high_24h", Comma, "volume_30d", Comma,
                      "best_bid", Comma, "best_ask", Comma, "side", Comma,
                      "time", Comma, "trade_id", Comma, "last_size", Comma,
                      "price_ema", Comma, "mid_price_ema", Comma, "mid_price">>

\* C28: with the producer and the consumer interleaved step by step, the
\* items popped are the items pushed, each once and in pushing order; the
\* items pushed and not yet popped are all still in the ring; and when the
\* consumer finds the ring empty while the producer is between two pushes,
\* as many items have been popped as were pushed.
C28_EveryItemOnce ==
    /\ [](/\ Len(popped) <= Len(pushed)
          /\ \A k \in 1..Len(popped) : popped[k] = pushed[k]
          /\ Len(pushed) - Len(popped) = (m_tail - m_head) % Size
          /\ \A k \in 1..(Len(pushed) - Len(popped)) :
                pushed[Len(popped) + k] =
                    IF k = 1 /\ cpc = "publish"
                    THEN popItem
                    ELSE m_buffer[(m_head + k - 1) % Size])
    /\ [][(cpc = "check" /\ cpc' = "idle" /\ ppc = "idle") =>
              Len(popped) = Len(pushed)]_vars

\* C28 witness: the producer has wrapped the ring and is between two pushes,
\* and the consumer has popped everything that was pushed.
C28_Witness ==
    /\ Len(pushed) > Size
    /\ popped = pushed
    /\ ppc = "idle"
    /\ cpc = "idle"
    /\ m_head = m_tail

\* C29: called by the owning side while the other side runs, the observers
\* can be relied on: after the consumer got empty() == false its next pop
\* succeeds, after the producer got full() == false its next push succeeds,
\* and size() never returns more than Size - 1.
C29_ObserversReliable ==
    /\ [][(/\ obs.pc = "done" /\ obs.who = "consumer" /\ obs.fn = "empty"
           /\ obs.ret = 0 /\ obs.at = Len(popped)
           /\ cpc = "check") => cpc' # "idle"]_vars
    /\ [][(/\ obs.pc = "done" /\ obs.who = "producer" /\ obs.fn = "full"
           /\ obs.ret = 0 /\ obs.at = Len(pushed)
           /\ ppc = "check") => ppc' # "idle"]_vars
    /\ []((obs.pc = "done" /\ obs.fn = "size") => obs.ret <= Size - 1)

\* C29 witness: the producer got full() == false while the consumer was in
\* the middle of a pop, and has since completed the push it then made.
C29_Witness ==
    /\ obs.pc = "done" /\ obs.who = "producer" /\ obs.fn = "full"
    /\ obs.ret = 0
    /\ Len(pushed) = obs.at + 1
    /\ Len(pushed) > Size
    /\ cpc = "publish"

\* C30: when the processing thread hands a record to a ready AsyncCSVLogger
\* whose queue is full, the overrun path runs: the oldest pending record is
\* popped and discarded by the producer, the second push succeeds, and the
\* queue then holds the other pending records, in order, followed by the
\* new one.
C30_OverrunPath ==
    [][ ( /\ loggerKind = "async" /\ Size > 1 /\ log_ready
          /\ procPc = "process" /\ procPc' = "inner"
          /\ procData.price # BadPrice
          /\ NextIndex(m_tail) = m_head ) =>
            LET n == (m_tail - m_head) % Size
                before == [k \in 1..n |-> m_buffer[(m_head + k - 1) % Size]]
                after  == [k \in 1..((m_tail' - m_head') % Size) |->
                              m_buffer'[(m_head' + k - 1) % Size]]
            IN  /\ pushed' = Append(pushed, procData.id)
                /\ after = Tail(before) \o <<procData.id>> ]_vars

\* C31: the two EMAs are independent: an updatePriceEMA call leaves the
\* mid-price EMA's value, initialized flag and last-update time as they were,
\* an updateMidPriceEMA call leaves those of the price EMA as they were, and
\* so the answer of either time gate, at any time, is not changed by a sample
\* applied to the other EMA.
C31_IndependentEMAs ==
    [][ /\ emaCall'.op = "price" =>
              /\ UNCHANGED <<m_midPriceEMA, m_midPriceInitialized, m_midPriceLastUpdate>>
              /\ \A t \in Times : shouldUpdateMidPrice(t)' = shouldUpdateMidPrice(t)
        /\ emaCall'.op = "mid" =>
              /\ UNCHANGED <<m_priceEMA, m_priceInitialized, m_priceLastUpdate>>
              /\ \A t \in Times : shouldUpdatePrice(t)' = shouldUpdatePrice(t)
      ]_vars

\* C31 witness: a sample has just been applied to the initialized price EMA
\* while the mid-price EMA, initialized at another time with another value,
\* still has its gate closed at that time.
C31_Witness ==
    /\ emaCall.op = "price"
    /\ emaCall.wasInit
    /\ m_priceLastUpdate = emaCall.time
    /\ m_midPriceInitialized
    /\ m_midPriceLastUpdate # m_priceLastUpdate
    /\ m_midPriceEMA # m_priceEMA
    /\ ~shouldUpdateMidPrice(emaCall.time)

\* C32: calls of updatePriceEMA, updateMidPriceEMA and reset made by several
\* threads are atomic with respect to each other: each call, when it
\* returns, has left the state and returns the value that it would have if
\* it had run alone from the state in which it started, so the outcome is
\* that of the calls in the order in which they started; and an update
\* leaves its EMA initialized.
C32_CallsAtomic ==
    [][ \A t \in Threads :
          (th.pc[t] # "idle" /\ th'.pc[t] = "idle") =>
              /\ EmaState' = th.seq[t].state
              /\ th.op[t] # "reset" =>
                    /\ th'.ret[t] = th.seq[t].ret
                    /\ InitializedOf(th.op[t])'
      ]_vars

\* C32 witness: both threads have updated the price EMA, the first with a
\* first sample, the second with another sample one interval later, and the
\* second got the blend of its sample with the first.
C32_Witness ==
    /\ th.pc[1] = "idle" /\ th.pc[2] = "idle"
    /\ th.op[1] = "price" /\ th.op[2] = "price"
    /\ th.sample[1] # th.sample[2]
    /\ th.ret[1] = th.sample[1]
    /\ th.ret[2] = Smooth(th.sample[2], th.sample[1])
    /\ m_priceEMA = th.ret[2]
    /\ m_priceLastUpdate = th.time[2]

\* C33: when several threads have called logTickerData on a logger whose
\* queue had room for all their records, and the logging thread has drained
\* the queue, at least 90% of the records passed have been written.
C33_NinetyPercentWritten ==
    ( /\ \A t \in Threads : mp.pc[t] = "idle"
      /\ mp.calls >= 1
      /\ mp.calls <= Size - 1
      /\ cpc = "idle"
      /\ m_head = m_tail ) =>
        10 * Cardinality({popped[i] : i \in 1..Len(popped)} \cap (1..mp.calls))
            >= 9 * mp.calls

\* C34: a row written to the stream by the logging thread does not stay
\* unflushed for longer than one flush interval plus the idle pause (and one
\* step of the clock), whether or not another record arrives.
C34_FlushWindow ==
    fl.written > fl.flushed =>
        fl.now - fl.oldest <= FLUSH_INTERVAL_MICROS + IdlePauseMicros + ClockStepMicros

\* C35: in the shutdown sequence the transport stops delivering before the
\* processing thread is stopped: once the processing thread has exited, no
\* frame is enqueued into the ingress queue any more.
C35_TransportStopsFirst ==
    [][ procPc = "done" => (enqueued' = enqueued /\ m_dataQueue' = m_dataQueue) ]_vars

\* C36: the processing thread changes only the price_ema and mid_price_ema
\* of a record: the price (standing for the transport fields), the mid_price
\* and the event time of every row in the file, and of the record just
\* processed, are those of the record that ingress enqueued.
C36_TransportReadOnly ==
    /\ [](\A i \in 1..Len(file) :
             file[i] # HeaderRow =>
                /\ file[i].id \in 1..Len(fed)
                /\ file[i].price = fed[file[i].id].price
                /\ file[i].mid_price = fed[file[i].id].mid_price
                /\ file[i].time = fed[file[i].id].time)
    /\ [][(procPc = "process" /\ procPc' = "inner") =>
             /\ procData = fed[procData.id]
             /\ procData'.id = procData.id
             /\ procData'.price = procData.price
             /\ procData'.mid_price = procData.mid_price
             /\ procData'.time = procData.time]_vars

\* C36 witness: the second record enqueued has been given EMA values that
\* differ from its price and mid_price and has its row in the file.
C36_Witness ==
    \E i \in 1..Len(file) :
        /\ file[i].id = 2
        /\ file[i].price_ema # R(file[i].price)
        /\ file[i].mid_price_ema # R(0)
        /\ file[i].price = fed[2].price
        /\ file[i].time = fed[2].time

\* C37: a record whose "time" is absent or cannot be parsed gets the wall
\* clock at decode time as its event time, so the event times of such
\* records never decrease.
C37_WallClockFallback ==
    /\ \A i \in 1..Len(wc.decoded) :
          wc.decoded[i].text \in {Absent, Unparseable} =>
              wc.decoded[i].timestamp = wc.decoded[i].at
    /\ \A i, j \in 1..Len(wc.decoded) :
          (i < j /\ wc.decoded[i].text \in {Absent, Unparseable}
                 /\ wc.decoded[j].text \in {Absent, Unparseable}) =>
              wc.decoded[i].timestamp <= wc.decoded[j].timestamp

\* C38: once a start() that follows a start() and a stop() has created its
\* components, the transport callback resolves to the newly created
\* WebSocketClient: the process-wide instance pointer names the client the
\* analyzer holds, not null and not a destroyed one.
C38_RestartResolves ==
    (ws.made >= 2 /\ ws.pc \in {"initialized", "connecting", "running"}) =>
        (getInstance # nullptr /\ getInstance = ws.m_websocketClient)

\* C39: every record for which AsyncCSVLogger::logTickerData returned true
\* is written: once close() has returned and the logging thread has ended,
\* each record that was accepted into the queue has its row in the file.
C39_AcceptedIsWritten ==
    (loggerKind = "async" /\ lg.state = "closed" /\ logPc = "done") =>
        \A n \in 1..lg.calls :
            RowHeld(n) # NoData =>
                \E i \in 1..Len(file) : file[i] # HeaderRow /\ file[i].id = n

\* C40: a stop() is not lost, whenever it is issued: once the last call made
\* is a stop() and every call has returned, the analyzer is not running and
\* neither its processing thread nor its transport connection is alive.
C40_StopNotLost ==
    (lifeCall.op = "stop" /\ mainPc \in Callable) =>
        (~m_running /\ procPc \in {"none", "done"} /\ ~wsConnected)

====
